---- MODULE Spec2Model ----
(***************************************************************************)
(* go-struct-validator: the schema compiler (getStructFields,              *)
(* mustParseField), the trigger selector (activate), the rule-chain        *)
(* executor (apply), the packaged validators and filters, the registry     *)
(* (AddValidator, AddFilter) and Validate.                                 *)
(*                                                                         *)
(* Text is a sequence of atoms.  In tag text an atom is one delimiter      *)
(* character or a maximal run of letters, digits and underscores; in a     *)
(* field's string value every atom is a single character, so that Len is   *)
(* Go's len.  A panic is an outcome of its own: a call that panics does    *)
(* not return.                                                             *)
(***************************************************************************)
EXTENDS Integers, Sequences, FiniteSets, TLC

VARIABLES validatorFunctions, filterFunctions, globalOptions, cache, rec, last, app, callers,
          parsing

vars == <<validatorFunctions, filterFunctions, globalOptions, cache, rec, last, app, callers,
         parsing>>

\* ------------------------------------------------------------------ bounds

\* Validate calls made on one record before the caller builds a new one.
MaxCalls == 2

\* Largest decimal numeral that strconv.ParseInt is asked to read in a tag.
MaxNumeral == 100

\* ------------------------------------------------------------------ text

Lower == {"a", "b", "c", "d", "e", "f", "g", "h", "i", "j", "k", "l", "m",
          "n", "o", "p", "q", "r", "s", "t", "u", "v", "w", "x", "y", "z"}

Upper == {"A", "B", "C", "D", "E", "F", "G", "H", "I", "J", "K", "L", "M",
          "N", "O", "P", "Q", "R", "S", "T", "U", "V", "W", "X", "Y", "Z"}

Digit == {"0", "1", "2", "3", "4", "5", "6", "7", "8", "9"}

Space == {" "}

Sub(s, from, to) == [i \in 1..(to - from + 1) |-> s[from + i - 1]]

\* strings.Index / strings.LastIndex for a one-character needle, 0-based, -1 if absent.
Index(s, c) ==
  IF \E i \in 1..Len(s) : s[i] = c
  THEN (CHOOSE i \in 1..Len(s) : s[i] = c /\ \A j \in 1..(i - 1) : s[j] # c) - 1
  ELSE -1

LastIndex(s, c) ==
  IF \E i \in 1..Len(s) : s[i] = c
  THEN (CHOOSE i \in 1..Len(s) : s[i] = c /\ \A j \in (i + 1)..Len(s) : s[j] # c) - 1
  ELSE -1

RECURSIVE Split(_, _)
\* strings.Split(s, sep) for a one-character separator: n separators give n+1 parts.
Split(s, sep) ==
  LET i == Index(s, sep) IN
    IF i = -1 THEN <<s>>
    ELSE <<Sub(s, 1, i)>> \o Split(Sub(s, i + 2, Len(s)), sep)

RECURSIVE Join(_, _)
Join(parts, sep) ==
  IF Len(parts) = 0 THEN <<>>
  ELSE IF Len(parts) = 1 THEN parts[1]
  ELSE parts[1] \o <<sep>> \o Join(Tail(parts), sep)

Contains(list, x) == \E i \in 1..Len(list) : list[i] = x

RECURSIVE TrimLeft(_, _)
TrimLeft(s, cutset) ==
  IF Len(s) > 0 /\ s[1] \in cutset THEN TrimLeft(Tail(s), cutset) ELSE s

RECURSIVE TrimRight(_, _)
TrimRight(s, cutset) ==
  IF Len(s) > 0 /\ s[Len(s)] \in cutset THEN TrimRight(Sub(s, 1, Len(s) - 1), cutset) ELSE s

\* strings.Trim(s, cutset) and strings.TrimSpace(s).
StrTrim(s, cutset) == TrimRight(TrimLeft(s, cutset), cutset)

TrimSpace(s) == StrTrim(s, Space)

HasSuffix(s, suf) ==
  Len(s) >= Len(suf) /\ Sub(s, Len(s) - Len(suf) + 1, Len(s)) = suf

ContainsAny(s, chars) == \E i \in 1..Len(s) : s[i] \in chars

\* strings.ToUpper on single-character atoms.
UpperOf(c) ==
  IF c \in Lower
  THEN CHOOSE u \in Upper :
         \E i \in 1..26 :
           /\ <<"a","b","c","d","e","f","g","h","i","j","k","l","m","n","o","p","q","r","s","t","u","v","w","x","y","z">>[i] = c
           /\ <<"A","B","C","D","E","F","G","H","I","J","K","L","M","N","O","P","Q","R","S","T","U","V","W","X","Y","Z">>[i] = u
  ELSE c

ToUpper(s) == [i \in 1..Len(s) |-> UpperOf(s[i])]

\* strconv.ParseInt(s, 10, 64) on a numeral atom with an optional sign.
ParseInt(s) ==
  LET digits == IF Len(s) = 2 /\ s[1] \in {"-", "+"} THEN Tail(s) ELSE s
      neg    == Len(s) = 2 /\ s[1] = "-"
      ok     == Len(digits) = 1 /\ \E n \in 0..MaxNumeral : ToString(n) = digits[1]
      n      == CHOOSE n \in 0..MaxNumeral : ToString(n) = digits[1]
  IN IF ok THEN [err |-> FALSE, n |-> IF neg THEN 0 - n ELSE n]
     ELSE [err |-> TRUE, n |-> 0]

\* strconv.ParseUint(s, 10, 64): no sign is accepted.
ParseUint(s) ==
  LET ok == Len(s) = 1 /\ \E n \in 0..MaxNumeral : ToString(n) = s[1]
      n  == CHOOSE n \in 0..MaxNumeral : ToString(n) = s[1]
  IN IF ok THEN [err |-> FALSE, n |-> n] ELSE [err |-> TRUE, n |-> 0]

\* strconv.FormatInt(n, 10) and the %v verb on an integer.
FormatInt(n) == IF n < 0 THEN <<"-", ToString(0 - n)>> ELSE <<ToString(n)>>

\* ------------------------------------------------------------------ values

IntKinds == {"int", "int8", "int16", "int32", "int64"}

UintKinds == {"uint", "uint8", "uint16", "uint32", "uint64"}

\* A reflect.Value: ptr says it is a pointer, null that the pointer is nil, k is
\* the kind of the value (of the pointee for a pointer), n and s its number or text.
IntV(k, n) == [ptr |-> FALSE, null |-> FALSE, k |-> k, n |-> n, s |-> <<>>]

StrV(s) == [ptr |-> FALSE, null |-> FALSE, k |-> "string", n |-> 0, s |-> s]

PtrTo(v) == [v EXCEPT !.ptr = TRUE, !.null = FALSE]

NilPtr(k) == [ptr |-> TRUE, null |-> TRUE, k |-> k, n |-> 0, s |-> <<>>]

\* The zero reflect.Value (Kind Invalid), what Elem() of a nil pointer returns.
Invalid == [ptr |-> FALSE, null |-> FALSE, k |-> "invalid", n |-> 0, s |-> <<>>]

Elem(v) == IF v.null THEN Invalid ELSE [v EXCEPT !.ptr = FALSE]

\* reflect.Zero(t) for a non-pointer type of kind k.
Zero(k) == [ptr |-> FALSE, null |-> FALSE, k |-> k, n |-> 0, s |-> <<>>]

\* reflect.Value.String(): the text of a string, "<T Value>" for anything else.
StringOf(v) ==
  IF v.k = "string" /\ ~v.ptr THEN v.s
  ELSE IF v.k = "invalid" THEN <<"<invalid Value>">>
  ELSE <<"<", v.k, " Value>">>

\* The %v verb on a reflect.Value holding a number or a string.
FormatValue(v) ==
  IF v.k = "string" THEN v.s
  ELSE IF v.k = "invalid" THEN <<"<invalid reflect.Value>">>
  ELSE FormatInt(v.n)

\* ValidationContext.GetValue
GetValue(ctx) == IF ctx.IsPointer THEN Elem(ctx.value) ELSE ctx.value

\* ValidationContext.ArgCount
ArgCount(ctx) == Len(ctx.Args)

\* ValidationContext.IsValueOfKind
IsValueOfKind(ctx, kinds) == ctx.valueKind \in kinds

\* ValidationContext.ValueMustBeOfKind: TRUE when it returns, FALSE when it panics.
ValueMustBeOfKind(ctx, kinds) == ctx.valueKind \in kinds

\* ValidationContext.MustGetIntArg / MustGetUintArg: err says the call panics.
MustGetIntArg(ctx, position) ==
  IF position + 1 > Len(ctx.Args) THEN [err |-> TRUE, n |-> 0]
  ELSE ParseInt(ctx.Args[position + 1])

MustGetUintArg(ctx, position) ==
  IF position + 1 > Len(ctx.Args) THEN [err |-> TRUE, n |-> 0]
  ELSE ParseUint(ctx.Args[position + 1])

\* What a validation function leaves behind: its verdict, ctx.ErrorMessage, or a panic.
Pass == [ok |-> TRUE, msg |-> <<>>, panic |-> FALSE]

Fail(msg) == [ok |-> FALSE, msg |-> msg, panic |-> FALSE]

Panic == [ok |-> FALSE, msg |-> <<>>, panic |-> TRUE]

\* ------------------------------------------------------------------ packaged validators

IsRequired(ctx) ==
  IF ctx.IsNull THEN Fail(<<"this field is requiredd">>) ELSE Pass

MinMaxKinds == IntKinds \cup UintKinds \cup {"string"}

IsMin(ctx) ==
  IF ~ValueMustBeOfKind(ctx, MinMaxKinds) THEN Panic
  ELSE IF ArgCount(ctx) = 0 THEN Panic
  ELSE IF ctx.IsNull THEN Pass
  ELSE LET expected  == MustGetIntArg(ctx, 0)
           uexpected == MustGetUintArg(ctx, 0)
           v         == GetValue(ctx)
       IN IF expected.err THEN Panic
          ELSE IF IsValueOfKind(ctx, {"string"})
          THEN IF Len(StringOf(v)) >= expected.n THEN Pass
               ELSE Fail(<<"length", " (">> \o FormatValue(v) \o <<") must be at least ">> \o ctx.Args[1])
          ELSE IF IsValueOfKind(ctx, IntKinds)
          THEN IF v.n >= expected.n THEN Pass
               ELSE Fail(<<"value", " (">> \o FormatValue(v) \o <<") must be at least ">> \o ctx.Args[1])
          ELSE IF uexpected.err THEN Panic
          ELSE IF v.n >= uexpected.n THEN Pass
               ELSE Fail(<<"value", " (">> \o FormatValue(v) \o <<") must be at least ">> \o ctx.Args[1])

\* The kinds IsMax compares as signed and as unsigned numbers.
MaxIntKinds == {"int", "int16", "int32", "int64"}

MaxUintKinds == {"uint", "uint16", "uint32", "uint64"}

IsMax(ctx) ==
  IF ~ValueMustBeOfKind(ctx, MinMaxKinds) THEN Panic
  ELSE IF ArgCount(ctx) = 0 THEN Panic
  ELSE IF ctx.IsNull THEN Pass
  ELSE LET expected  == MustGetIntArg(ctx, 0)
           uexpected == MustGetUintArg(ctx, 0)
           v         == GetValue(ctx)
       IN IF expected.err THEN Panic
          ELSE IF IsValueOfKind(ctx, {"string"})
          THEN IF Len(StringOf(v)) <= expected.n THEN Pass
               ELSE Fail(<<"length", " (">> \o FormatValue(v) \o <<") must not exceed ">> \o ctx.Args[1])
          ELSE IF IsValueOfKind(ctx, MaxIntKinds)
          THEN IF v.n <= expected.n THEN Pass
               ELSE Fail(<<"value", " (">> \o FormatValue(v) \o <<") must not exceed ">> \o ctx.Args[1])
          ELSE IF IsValueOfKind(ctx, MaxUintKinds)
          THEN IF uexpected.err THEN Panic
               ELSE IF v.n <= uexpected.n THEN Pass
               ELSE Fail(<<"value", " (">> \o FormatValue(v) \o <<") must not exceed ">> \o ctx.Args[1])
          ELSE Fail(<<"value", " (">> \o FormatValue(v) \o <<") must not exceed ">> \o ctx.Args[1])

IsEnum(ctx) ==
  IF ctx.IsNull THEN Pass
  ELSE IF ArgCount(ctx) = 0 THEN Panic
  ELSE LET v     == GetValue(ctx)
           nomsg == <<"invalid value specified">> \o
                    (IF ctx.Options.ExposeEnumValues
                     THEN <<". expected any of ">> \o Join(ctx.Args, ",") ELSE <<>>)
       IN IF IsValueOfKind(ctx, IntKinds \cup UintKinds)
          THEN IF Contains(ctx.Args, FormatInt(v.n)) THEN Pass ELSE Fail(nomsg)
          ELSE IF IsValueOfKind(ctx, {"string"})
          THEN IF Contains(ctx.Args, StringOf(v)) THEN Pass ELSE Fail(nomsg)
          ELSE Panic

AlNum == Lower \cup Upper \cup Digit

\* regexp "^[a-z0-9]+$"
MatchAlphaNum(s) == Len(s) >= 1 /\ \A i \in 1..Len(s) : s[i] \in Lower \cup Digit

IsAlphaNumeric(ctx) ==
  IF ~ValueMustBeOfKind(ctx, {"string"}) THEN Panic
  ELSE IF ctx.IsNull THEN Pass
  ELSE IF MatchAlphaNum(StringOf(GetValue(ctx))) THEN Pass
  ELSE Fail(<<"must be alphanumeric">>)

\* regexp "^[a-zA-Z0-9][a-zA-Z0-9_.]+$"
MatchUser(s) ==
  Len(s) >= 2 /\ s[1] \in AlNum /\ \A i \in 2..Len(s) : s[i] \in AlNum \cup {"_", "."}

\* regexp "^[a-zA-Z0-9][a-zA-Z0-9]+$"
MatchHost(s) == Len(s) >= 2 /\ \A i \in 1..Len(s) : s[i] \in AlNum

IsEmail(ctx) ==
  IF ~ValueMustBeOfKind(ctx, {"string"}) THEN Panic
  ELSE IF ctx.IsNull THEN Pass
  ELSE LET parts == Split(StringOf(GetValue(ctx)), "@") IN
       IF Len(parts) # 2 THEN Fail(<<>>)
       ELSE IF ~MatchUser(parts[1]) THEN Fail(<<>>)
       ELSE LET domains == Split(parts[2], ".") IN
            IF \A i \in 1..Len(domains) : MatchHost(domains[i]) THEN Pass ELSE Fail(<<>>)

\* github.com/google/uuid Parse: the text forms it accepts and the version it reads.
HexDigits == Digit \cup {"a", "b", "c", "d", "e", "f", "A", "B", "C", "D", "E", "F"}

HexVal(c) ==
  IF c \in Digit THEN CHOOSE n \in 0..9 : ToString(n) = c
  ELSE IF c \in {"a", "A"} THEN 10
  ELSE IF c \in {"b", "B"} THEN 11
  ELSE IF c \in {"c", "C"} THEN 12
  ELSE IF c \in {"d", "D"} THEN 13
  ELSE IF c \in {"e", "E"} THEN 14
  ELSE 15

UuidParse(s) ==
  LET bad == [err |-> TRUE, version |-> 0] IN
  IF Len(s) = 32
  THEN IF \A i \in 1..32 : s[i] \in HexDigits
       THEN [err |-> FALSE, version |-> HexVal(s[13])] ELSE bad
  ELSE IF Len(s) \notin {36, 38, 45} THEN bad
  ELSE IF Len(s) = 45 /\ ToUpper(Sub(s, 1, 9)) # <<"U", "R", "N", ":", "U", "U", "I", "D", ":">> THEN bad
  ELSE LET b == IF Len(s) = 45 THEN Sub(s, 10, 45)
                ELSE IF Len(s) = 38 THEN Sub(s, 2, 37) ELSE s
       IN IF /\ \A i \in {9, 14, 19, 24} : b[i] = "-"
             /\ \A i \in (1..36) \ {9, 14, 19, 24} : b[i] \in HexDigits
          THEN [err |-> FALSE, version |-> HexVal(b[15])] ELSE bad

uuidFn(ctx, version) ==
  IF ~ValueMustBeOfKind(ctx, {"string"}) THEN Panic
  ELSE IF ctx.IsNull THEN Fail(<<>>)
  ELSE LET id == UuidParse(StringOf(GetValue(ctx))) IN
       IF id.err THEN Fail(<<"invalid uuid format">>)
       ELSE IF id.version = version THEN Pass
       ELSE Fail(<<"expectedd UUIDv", ToString(version), " but found UUIDv", ToString(id.version)>>)

IsUuid1(ctx) == uuidFn(ctx, 1)

IsUuid2(ctx) == uuidFn(ctx, 2)

IsUuid3(ctx) == uuidFn(ctx, 3)

IsUuid4(ctx) == uuidFn(ctx, 4)

\* ------------------------------------------------------------------ dates

\* An instant is the ordinal of its calendar day and whether it lies past that
\* day's midnight; text is the day in the layout 2006-01-02, one character an atom.
DefaultLayout == <<"2006", "-", "01", "-", "02">>

TwoDigits(s, i) == 10 * HexVal(s[i]) + HexVal(s[i + 1])

DaysIn(y, m) ==
  IF m \in {4, 6, 9, 11} THEN 30
  ELSE IF m # 2 THEN 31
  ELSE IF (y % 4 = 0 /\ y % 100 # 0) \/ y % 400 = 0 THEN 29 ELSE 28

\* time.Parse(layout, s) for the default layout; a day is read as its midnight.
TimeParse(layout, s) ==
  LET bad == [err |-> TRUE, ord |-> 0, past |-> FALSE, text |-> s] IN
  IF layout # DefaultLayout THEN bad
  ELSE IF Len(s) # 10 THEN bad
  ELSE IF ~(/\ s[5] = "-" /\ s[8] = "-"
            /\ \A i \in {1, 2, 3, 4, 6, 7, 9, 10} : s[i] \in Digit) THEN bad
  ELSE LET y == 100 * TwoDigits(s, 1) + TwoDigits(s, 3)
           m == TwoDigits(s, 6)
           d == TwoDigits(s, 9)
       IN IF m < 1 \/ m > 12 \/ d < 1 \/ d > DaysIn(y, m) THEN bad
          ELSE [err |-> FALSE, ord |-> (y * 12 + (m - 1)) * 31 + d, past |-> FALSE, text |-> s]

After(t, u) == t.ord > u.ord \/ (t.ord = u.ord /\ t.past /\ ~u.past)

Before(t, u) == After(u, t)

TimeEqual(t, u) == t.ord = u.ord /\ t.past = u.past

\* Comparator.TemporalDescription
TemporalDescription(c) ==
  CASE c = "="  -> "the same as"
    [] c = "!=" -> "not the same as"
    [] c = "<"  -> "before"
    [] c = ">"  -> "after"
    [] c = "<=" -> "at most"
    [] c = ">=" -> "at least"

timeValidator(ctx, comparator) ==
  LET today  == ctx.now
      layout == IF ArgCount(ctx) = 1 THEN ctx.Args[1] ELSE DefaultLayout
  IN IF ctx.IsPointer /\ ctx.IsNull THEN Pass
     ELSE IF ~IsValueOfKind(ctx, {"string"}) THEN Panic
     ELSE LET then == TimeParse(layout, StringOf(GetValue(ctx))) IN
          IF then.err THEN Fail(<<"invalid date format. expected format is ">> \o layout)
          ELSE LET match ==
                     CASE comparator = ">"  -> After(then, today)
                       [] comparator = ">=" -> After(then, today) \/ TimeEqual(then, today)
                       [] comparator = "<"  -> Before(then, today)
                       [] comparator = "<=" -> Before(then, today) \/ TimeEqual(then, today)
                       [] comparator = "!=" -> ~TimeEqual(then, today)
                       [] OTHER -> FALSE
               IN IF match THEN Pass
                  ELSE Fail(then.text \o <<" must be ", TemporalDescription(comparator), " ">> \o today.text)

IsOrBeforeToday(ctx) == timeValidator(ctx, "<=")

IsOrAfterToday(ctx) == timeValidator(ctx, ">=")

IsBeforeToday(ctx) == timeValidator(ctx, "<")

IsAfterToday(ctx) == timeValidator(ctx, ">")

IsToday(ctx) == timeValidator(ctx, "=")

\* ------------------------------------------------------------------ functions of the tests

\* The validator "range" that TestCustomFunctions installs.
rangeFn(ctx) ==
  IF ArgCount(ctx) # 2 THEN Fail(<<"range function requires exactly two parameters">>)
  ELSE LET min == MustGetIntArg(ctx, 0)
           max == MustGetIntArg(ctx, 1)
           v   == GetValue(ctx)
       IN IF min.err \/ max.err THEN Panic
          ELSE IF ctx.IsNull THEN Fail(<<>>)
          ELSE IF v.k \notin IntKinds THEN Panic
          ELSE IF v.n >= min.n /\ v.n <= max.n THEN Pass
          ELSE Fail(<<"value must be between ">> \o FormatInt(min.n) \o <<" and ">> \o FormatInt(max.n))

\* What a filter function leaves behind: the reflect.Value it returns, the field's
\* storage as the function left it (a filter may write in place), or a panic.
Returns(val, store) == [val |-> val, store |-> store, panic |-> FALSE]

FilterPanic(store) == [val |-> Invalid, store |-> store, panic |-> TRUE]

\* The packaged filter "trim".
Trim(ctx) ==
  IF ~ValueMustBeOfKind(ctx, {"string"}) THEN FilterPanic(ctx.value)
  ELSE IF ctx.IsPointer /\ ~ctx.IsNull
  THEN Returns(PtrTo(StrV(TrimSpace(StringOf(GetValue(ctx))))), ctx.value)
  ELSE Returns(StrV(TrimSpace(StringOf(GetValue(ctx)))), ctx.value)

\* The filter "upper" of TestCustomFunctions, and the one of TestPointer.
upperValue(ctx) ==
  IF ~ValueMustBeOfKind(ctx, {"string"}) THEN FilterPanic(ctx.value)
  ELSE IF ~ctx.IsNull THEN Returns(StrV(ToUpper(StringOf(GetValue(ctx)))), ctx.value)
  ELSE Returns(GetValue(ctx), ctx.value)

upperPointer(ctx) ==
  IF ~ValueMustBeOfKind(ctx, {"string"}) THEN FilterPanic(ctx.value)
  ELSE IF ctx.IsPointer /\ ~ctx.IsNull
  THEN Returns(PtrTo(StrV(ToUpper(StringOf(GetValue(ctx))))), ctx.value)
  ELSE Returns(GetValue(ctx), ctx.value)

\* The filter "square" of TestCustomFunctions, and the one of TestPointer.
squareValue(ctx) ==
  IF ~ValueMustBeOfKind(ctx, {"int"}) THEN FilterPanic(ctx.value)
  ELSE IF ~ctx.IsNull THEN Returns(IntV("int", GetValue(ctx).n * GetValue(ctx).n), ctx.value)
  ELSE Returns(GetValue(ctx), ctx.value)

squarePointer(ctx) ==
  IF ~ValueMustBeOfKind(ctx, {"int"}) THEN FilterPanic(ctx.value)
  ELSE IF ctx.IsPointer /\ ~ctx.IsNull
  THEN Returns(PtrTo(IntV("int", GetValue(ctx).n * GetValue(ctx).n)), ctx.value)
  ELSE Returns(GetValue(ctx), ctx.value)

\* The filter "add_five" of TestActivationTrigger: it writes the field in place.
addFive(ctx) ==
  IF ~ValueMustBeOfKind(ctx, {"int"}) THEN FilterPanic(ctx.value)
  ELSE IF ctx.IsNull THEN Returns(GetValue(ctx), ctx.value)
  ELSE IF ctx.IsPointer THEN FilterPanic(ctx.value)
  ELSE LET w == [ctx.value EXCEPT !.n = @ + 5] IN Returns(w, w)

\* A ValidationFunction or FilterFunction value is named by its declaration.
CallValidator(fn, ctx) ==
  CASE fn = "IsRequired"      -> IsRequired(ctx)
    [] fn = "IsAlphaNumeric"  -> IsAlphaNumeric(ctx)
    [] fn = "IsUuid1"         -> IsUuid1(ctx)
    [] fn = "IsUuid2"         -> IsUuid2(ctx)
    [] fn = "IsUuid3"         -> IsUuid3(ctx)
    [] fn = "IsUuid4"         -> IsUuid4(ctx)
    [] fn = "IsMin"           -> IsMin(ctx)
    [] fn = "IsMax"           -> IsMax(ctx)
    [] fn = "IsEnum"          -> IsEnum(ctx)
    [] fn = "IsEmail"         -> IsEmail(ctx)
    [] fn = "IsOrBeforeToday" -> IsOrBeforeToday(ctx)
    [] fn = "IsOrAfterToday"  -> IsOrAfterToday(ctx)
    [] fn = "IsToday"         -> IsToday(ctx)
    [] fn = "IsBeforeToday"   -> IsBeforeToday(ctx)
    [] fn = "IsAfterToday"    -> IsAfterToday(ctx)
    [] fn = "rangeFn"         -> rangeFn(ctx)

CallFilter(fn, ctx) ==
  CASE fn = "Trim"          -> Trim(ctx)
    [] fn = "upperValue"    -> upperValue(ctx)
    [] fn = "upperPointer"  -> upperPointer(ctx)
    [] fn = "squareValue"   -> squareValue(ctx)
    [] fn = "squarePointer" -> squarePointer(ctx)
    [] fn = "addFive"       -> addFive(ctx)

\* The registries as the package initialises them.
BuiltinValidators ==
  (<<"required">> :> "IsRequired") @@ (<<"alphanum">> :> "IsAlphaNumeric") @@
  (<<"uuid1">> :> "IsUuid1") @@ (<<"uuid2">> :> "IsUuid2") @@
  (<<"uuid3">> :> "IsUuid3") @@ (<<"uuid4">> :> "IsUuid4") @@
  (<<"min">> :> "IsMin") @@ (<<"max">> :> "IsMax") @@ (<<"enum">> :> "IsEnum") @@
  (<<"email">> :> "IsEmail") @@ (<<"at_least_today">> :> "IsOrBeforeToday") @@
  (<<"at_most_today">> :> "IsOrAfterToday") @@ (<<"today">> :> "IsToday") @@
  (<<"before_today">> :> "IsBeforeToday") @@ (<<"after_today">> :> "IsAfterToday")

BuiltinFilters == (<<"trim">> :> "Trim")

\* The options as the package initialises them.
DefaultOptions ==
  [FilterTagName |-> "filter", ValidatorTagName |-> "validator", StringAutoTrim |-> FALSE,
   MessageTagName |-> "message", LabelTagName |-> "label", StopOnFirstError |-> FALSE,
   ExposeValidatorNames |-> FALSE, NoPanicOnFunctionConflict |-> FALSE,
   ExposeEnumValues |-> FALSE, TriggerTagName |-> "trigger", FlagTagName |-> "flags"]

AllowZero == <<"allow_zero">>

\* ------------------------------------------------------------------ schema compiler

\* reflect.StructTag.Lookup
Lookup(tag, key) ==
  IF key \in DOMAIN tag THEN [ok |-> TRUE, v |-> tag[key]] ELSE [ok |-> FALSE, v |-> <<>>]

\* extractFunctionInformation taking the name and never the arguments.
extractNameOnly(funcDefinition) ==
  IF ContainsAny(funcDefinition, {"(", ")"}) /\ Index(funcDefinition, "(") >= 0
  THEN [name |-> Sub(funcDefinition, 1, Index(funcDefinition, "(")), args |-> <<>>,
        panic |-> FALSE]
  ELSE [name |-> funcDefinition, args |-> <<>>, panic |-> FALSE]

\* extractFunctionInformation: panic is a slice bound out of range.
extractFunctionInformation(funcDefinition) ==
  IF HasSuffix(funcDefinition, <<"(", ")">>)
  THEN [name |-> StrTrim(funcDefinition, {"(", ")"}), args |-> <<>>, panic |-> FALSE]
  ELSE IF ContainsAny(funcDefinition, {"(", ")"})
  THEN LET openParenthesisPosition  == Index(funcDefinition, "(")
           closeParenthesisPosition == LastIndex(funcDefinition, ")")
       IN IF \/ openParenthesisPosition < 0
             \/ closeParenthesisPosition < openParenthesisPosition + 1
          THEN [name |-> <<>>, args |-> <<>>, panic |-> TRUE]
          ELSE [name  |-> Sub(funcDefinition, 1, openParenthesisPosition),
                args  |-> Split(Sub(funcDefinition, openParenthesisPosition + 2,
                                    closeParenthesisPosition), ","),
                panic |-> FALSE]
  ELSE [name |-> funcDefinition, args |-> <<>>, panic |-> FALSE]

RECURSIVE bindFunctionsKnown(_, _)
\* The loops of mustParseField leaving out the names the registry does not hold.
bindFunctionsKnown(parts, functions) ==
  IF Len(parts) = 0 THEN [list |-> <<>>, panic |-> FALSE]
  ELSE LET info == extractFunctionInformation(parts[1])
           rest == bindFunctionsKnown(Tail(parts), functions)
       IN IF info.panic \/ info.name \notin DOMAIN functions THEN rest
          ELSE [list  |-> <<[name |-> info.name, fn |-> functions[info.name],
                             args |-> info.args]>> \o rest.list,
                panic |-> rest.panic]

RECURSIVE bindFunctions(_, _)
\* The loops of mustParseField over the parts of a validator or filter tag: each
\* name is looked up in the registry when the field is parsed.
bindFunctions(parts, functions) ==
  IF Len(parts) = 0 THEN [list |-> <<>>, panic |-> FALSE]
  ELSE LET info == extractFunctionInformation(parts[1]) IN
       IF info.panic \/ info.name \notin DOMAIN functions
       THEN [list |-> <<>>, panic |-> TRUE]
       ELSE LET rest == bindFunctions(Tail(parts), functions) IN
            [list  |-> <<[name |-> info.name, fn |-> functions[info.name], args |-> info.args]>>
                       \o rest.list,
             panic |-> rest.panic]

NoFieldContext ==
  [validators |-> <<>>, filters |-> <<>>, hasLabel |-> FALSE, hasMessagTemplate |-> FALSE,
   fieldKind |-> "invalid", zeroValue |-> Invalid, triggers |-> <<>>, fieldName |-> <<>>,
   fieldLabel |-> <<>>, fieldMessageTemplate |-> <<>>, flags |-> <<>>]

WrapperKinds == {"array", "map", "slice", "ptr"}

\* mustParseField: nil when the field gets no fieldContext.
mustParseField(field, opts, validators, filters) ==
  LET flagTag      == Lookup(field.Tag, opts.FlagTagName)
      filterTag    == Lookup(field.Tag, opts.FilterTagName)
      triggerTag   == Lookup(field.Tag, opts.TriggerTagName)
      validatorTag == Lookup(field.Tag, opts.ValidatorTagName)
      messageTag   == Lookup(field.Tag, opts.MessageTagName)
      labelTag     == Lookup(field.Tag, opts.LabelTagName)
      vs == IF validatorTag.ok THEN bindFunctions(Split(validatorTag.v, "|"), validators)
            ELSE [list |-> <<>>, panic |-> FALSE]
      fs == IF filterTag.ok THEN bindFunctions(Split(filterTag.v, "|"), filters)
            ELSE [list |-> <<>>, panic |-> FALSE]
      parts == Split(flagTag.v, "|")
  IN IF field.Name[1] \in Lower \/ (~filterTag.ok /\ ~validatorTag.ok)
     THEN [nil |-> TRUE, panic |-> FALSE, fc |-> NoFieldContext]
     ELSE IF vs.panic \/ fs.panic
     THEN [nil |-> TRUE, panic |-> TRUE, fc |-> NoFieldContext]
     ELSE [nil |-> FALSE, panic |-> FALSE,
           fc |-> [validators |-> vs.list,
                   filters |-> fs.list,
                   hasLabel |-> labelTag.ok,
                   hasMessagTemplate |-> messageTag.ok,
                   fieldKind |-> IF field.Type.Kind \in WrapperKinds
                                 THEN field.Type.Elem ELSE field.Type.Kind,
                   zeroValue |-> IF field.Type.Kind = "ptr"
                                 THEN Zero(field.Type.Elem) ELSE Zero(field.Type.Kind),
                   triggers |-> IF triggerTag.ok THEN Split(triggerTag.v, ",")
                                ELSE <<<<"all">>>>,
                   fieldName |-> field.Name,
                   fieldLabel |-> IF labelTag.ok THEN labelTag.v ELSE field.Name,
                   fieldMessageTemplate |-> IF messageTag.ok THEN messageTag.v ELSE <<>>,
                   flags |-> IF flagTag.ok
                             THEN [i \in 1..Len(parts) |-> TrimSpace(parts[i])]
                             ELSE <<>>]]

\* ------------------------------------------------------------------ the applications

\* A struct field as reflect.StructField shows it.  Name is the first character
\* and the rest; Values are the values the caller builds records from.
IntT == [Kind |-> "int", Elem |-> "", Struct |-> ""]

StringT == [Kind |-> "string", Elem |-> "", Struct |-> ""]

PtrT(k) == [Kind |-> "ptr", Elem |-> k, Struct |-> ""]

StructT(t) == [Kind |-> "struct", Elem |-> "", Struct |-> t]

Field(name, type, tag, values) ==
  [Name |-> name, Type |-> type, Tag |-> tag, Anonymous |-> FALSE, Values |-> values]

Embedded(name, t) ==
  [Name |-> name, Type |-> StructT(t), Tag |-> <<>>, Anonymous |-> TRUE, Values |-> {}]

NoTag == [x \in {} |-> <<>>]

\* TestActivationTrigger's Person, with one unexported and one untagged field.
Person ==
  [PkgPath |-> "main", Name |-> "Person", Kind |-> "struct",
   Fields |-> <<
     Field(<<"I", "d">>, IntT,
           [validator |-> <<"min", "(", "100", ")">>,
            message |-> <<"Employment", " ", "ID", " ", "numbers", " ", "start", " ", "at", " ", "100">>,
            trigger |-> <<"update">>],
           {IntV("int", 0), IntV("int", 100)}),
     Field(<<"A", "ge">>, IntT, [filter |-> <<"add_five">>], {IntV("int", 2)}),
     Field(<<"H", "eight">>, IntT,
           [filter |-> <<"add_five", "|", "add_five">>, trigger |-> <<"create", ",", "update">>],
           {IntV("int", 1)}),
     Field(<<"s", "ecret">>, IntT, [validator |-> <<"min", "(", "100", ")">>], {IntV("int", 0)}),
     Field(<<"N", "ote">>, StringT, NoTag, {StrV(<<" ", "n">>)}) >>]

\* TestPointer's MyStruct.
Agent ==
  [PkgPath |-> "main", Name |-> "Agent", Kind |-> "struct",
   Fields |-> <<
     Field(<<"N", "ame">>, PtrT("string"), [filter |-> <<"trim">>],
           {PtrTo(StrV(<<" ", "b", " ">>)), NilPtr("string")}),
     Field(<<"A", "ge">>, PtrT("int"),
           [validator |-> <<"min", "(", "50", ")">>, filter |-> <<"square">>,
            label |-> <<"Agent", " ", "age">>],
           {PtrTo(IntV("int", 42)), PtrTo(IntV("int", 60)), NilPtr("int")}) >>]

\* Chains in which several validators fail, with and without a message of their own.
Member ==
  [PkgPath |-> "main", Name |-> "Member", Kind |-> "struct",
   Fields |-> <<
     Field(<<"C", "ode">>, StringT,
           [validator |-> <<"required", "|", "min", "(", "2", ")", "|", "email">>,
            filter |-> <<"trim">>],
           {StrV(<<"a">>), StrV(<<" ", "a", " ">>), StrV(<<"a", "b", "@", "c", "d">>)}),
     Field(<<"L", "evel">>, IntT,
           [validator |-> <<"range", "(", "1", ",", "5", ")", "|", "max", "(", "3", ")">>,
            message |-> <<"bad", " ", "level">>, flags |-> <<"allow_zero">>,
            trigger |-> <<"create">>],
           {IntV("int", 0), IntV("int", 4), IntV("int", 7)}) >>]

\* Optional and required pointer fields under the packaged validators.
Doc ==
  [PkgPath |-> "main", Name |-> "Doc", Kind |-> "struct",
   Fields |-> <<
     Field(<<"R", "ef">>, PtrT("string"), [validator |-> <<"uuid4">>],
           {NilPtr("string"), PtrTo(StrV(<<"a">>))}),
     Field(<<"O", "wner">>, PtrT("string"),
           [validator |-> <<"required", "|", "min", "(", "1", ")", "|", "max", "(", "2", ")">>],
           {NilPtr("string"), PtrTo(StrV(<<"a", "b", "c">>))}),
     Field(<<"K", "ey">>, PtrT("string"), [validator |-> <<"required", "|", "uuid4">>],
           {NilPtr("string")}),
     Field(<<"M", "ail">>, PtrT("string"),
           [validator |-> <<"email", "|", "alphanum", "|", "enum", "(", "a", ")", "|",
                            "today", "|", "before_today", "|", "max", "(", "2", ")">>],
           {NilPtr("string"), PtrTo(StrV(<<"a">>))}) >>]

\* A type that is no struct, for callers that pass a pointer to something else.
IntType == [PkgPath |-> "", Name |-> "int", Kind |-> "int", Fields |-> <<>>]

\* TestValidator's MyStruct and TestCustomFunctions' MyStruct: two types declared
\* inside functions of one package under one name.
MyStructOfTestValidator ==
  [PkgPath |-> "validator_test", Name |-> "MyStruct", Kind |-> "struct",
   Fields |-> <<
     Field(<<"N", "ame">>, StringT, [filter |-> <<"trim">>], {StrV(<<" ", "j", " ">>)}),
     Field(<<"A", "ge">>, IntT,
           [validator |-> <<"required", "|", "min", "(", "21", ")", "|", "max", "(", "35", ")">>],
           {IntV("int", 0), IntV("int", 1)}) >>]

MyStructOfTestCustomFunctions ==
  [PkgPath |-> "validator_test", Name |-> "MyStruct", Kind |-> "struct",
   Fields |-> <<
     Field(<<"N", "ame">>, StringT, [filter |-> <<"trim", "|", "upper">>],
           {StrV(<<" ", "j", " ">>)}),
     Field(<<"A", "ge">>, IntT,
           [validator |-> <<"range", "(", "10", ",", "50", ")">>,
            filter |-> <<"square", "|", "square">>],
           {IntV("int", 0), IntV("int", 1)}) >>]

\* TestNested's struct2, Struct1 and MyStruct.
struct2 ==
  [PkgPath |-> "validator_test", Name |-> "struct2", Kind |-> "struct",
   Fields |-> <<
     Field(<<"A", "ge">>, IntT,
           [validator |-> <<"min", "(", "18", ")">>,
            message |-> <<"must be at least 18 to open an account here">>],
           {IntV("int", 0), IntV("int", 18)}) >>]

Struct1 ==
  [PkgPath |-> "validator_test", Name |-> "Struct1", Kind |-> "struct",
   Fields |-> <<
     Embedded(<<"s", "truct2">>, "struct2"),
     Field(<<"F", "oo">>, IntT,
           [validator |-> <<"min", "(", "100", ")">>, label |-> <<"Deposit amount">>],
           {IntV("int", 0), IntV("int", 100)}) >>]

MyStructOfTestNested ==
  [PkgPath |-> "validator_test", Name |-> "MyStruct", Kind |-> "struct",
   Fields |-> <<
     Embedded(<<"S", "truct1">>, "Struct1"),
     Field(<<"B", "ar">>, IntT,
           [validator |-> <<"min", "(", "10", ")", "|", "max", "(", "20", ")">>],
           {IntV("int", 15)}) >>]

\* A record with sub-records before and between its own fields, a field with a
\* label and a trigger but no rule, an untagged field, and an unexported field
\* with a validator inside a sub-record.
Profile ==
  [PkgPath |-> "main", Name |-> "Profile", Kind |-> "struct",
   Fields |-> <<
     Field(<<"N", "ick">>, StringT, [filter |-> <<"trim">>], {StrV(<<" ", "n">>)}),
     Field(<<"p", "in">>, IntT, [validator |-> <<"min", "(", "1", ")">>], {IntV("int", 0)}),
     Field(<<"M", "emo">>, StringT, NoTag, {StrV(<<"m">>)}) >>]

Limits ==
  [PkgPath |-> "main", Name |-> "Limits", Kind |-> "struct",
   Fields |-> <<
     Embedded(<<"s", "truct2">>, "struct2"),
     Field(<<"L", "ow">>, IntT, [validator |-> <<"min", "(", "1", ")">>],
           {IntV("int", 0), IntV("int", 1)}) >>]

Account ==
  [PkgPath |-> "main", Name |-> "Account", Kind |-> "struct",
   Fields |-> <<
     Embedded(<<"P", "rofile">>, "Profile"),
     Field(<<"I", "d">>, IntT, [validator |-> <<"min", "(", "1", ")">>], {IntV("int", 1)}),
     Field(<<"T", "ag">>, StringT, [label |-> <<"Tag">>, trigger |-> <<"create">>],
           {StrV(<<"t">>)}),
     Embedded(<<"L", "imits">>, "Limits"),
     Field(<<"C", "ap">>, IntT, [validator |-> <<"max", "(", "9", ")">>, filter |-> <<"square">>],
           {IntV("int", 3)}) >>]

\* A record whose sub-record names a validator that the application registers
\* only later.
Item ==
  [PkgPath |-> "main", Name |-> "Item", Kind |-> "struct",
   Fields |-> <<
     Field(<<"C", "ode">>, IntT, [validator |-> <<"range", "(", "1", ",", "5", ")">>],
           {IntV("int", 0), IntV("int", 2)}) >>]

Order ==
  [PkgPath |-> "main", Name |-> "Order", Kind |-> "struct",
   Fields |-> <<
     Field(<<"T", "itle">>, StringT, [filter |-> <<"trim">>], {StrV(<<" ", "t">>)}),
     Embedded(<<"I", "tem">>, "Item") >>]

\* Two struct types without a name.
Unnamed1 ==
  [PkgPath |-> "", Name |-> "", Kind |-> "struct",
   Fields |-> <<
     Field(<<"C", "ount">>, IntT, [validator |-> <<"min", "(", "1", ")">>],
           {IntV("int", 0), IntV("int", 1)}) >>]

Unnamed2 ==
  [PkgPath |-> "", Name |-> "", Kind |-> "struct",
   Fields |-> <<
     Field(<<"T", "itle">>, StringT, [filter |-> <<"trim">>],
           {StrV(<<" ", "t">>), StrV(<<"t">>)}) >>]

\* A record whose fields all carry the allow_zero flag: a pointer with required
\* and a filter, a string, and an int with a filter only.
Flagged ==
  [PkgPath |-> "main", Name |-> "Flagged", Kind |-> "struct",
   Fields |-> <<
     Field(<<"C", "ount">>, PtrT("int"),
           [validator |-> <<"required", "|", "min", "(", "5", ")">>, filter |-> <<"square">>,
            flags |-> <<"allow_zero">>],
           {NilPtr("int"), PtrTo(IntV("int", 0)), PtrTo(IntV("int", 3)), PtrTo(IntV("int", 6))}),
     Field(<<"N", "ame">>, StringT,
           [validator |-> <<"required", "|", "min", "(", "2", ")">>, filter |-> <<"trim">>,
            flags |-> <<"allow_zero">>],
           {StrV(<<>>), StrV(<<" ", "a">>), StrV(<<"a", "b">>)}),
     Field(<<"S", "tep">>, IntT,
           [filter |-> <<"add_five">>, flags |-> <<"allow_zero">>, trigger |-> <<"create">>],
           {IntV("int", 0), IntV("int", 1)}) >>]

\* A record with an optional title and a body, both trimmed.
Note ==
  [PkgPath |-> "main", Name |-> "Note", Kind |-> "struct",
   Fields |-> <<
     Field(<<"T", "itle">>, PtrT("string"), [filter |-> <<"trim">>],
           {NilPtr("string"), PtrTo(StrV(<<" ", "a">>)), PtrTo(StrV(<<"a">>))}),
     Field(<<"B", "ody">>, StringT, [filter |-> <<"trim">>, trigger |-> <<"create">>],
           {StrV(<<>>), StrV(<<"a", " ">>)}) >>]

\* Records with a number of every width class and a text, each bounded from both
\* sides by 3.
KindT(k) == [Kind |-> k, Elem |-> "", Struct |-> ""]

Bounded == [validator |-> <<"min", "(", "3", ")", "|", "max", "(", "3", ")">>]

Signed ==
  [PkgPath |-> "main", Name |-> "Signed", Kind |-> "struct",
   Fields |-> <<
     Field(<<"A", "">>, KindT("int8"), Bounded,
           {IntV("int8", 2), IntV("int8", 3), IntV("int8", 4)}),
     Field(<<"B", "">>, KindT("int16"), Bounded,
           {IntV("int16", 2), IntV("int16", 3), IntV("int16", 4)}),
     Field(<<"C", "">>, KindT("int64"), Bounded,
           {IntV("int64", 2), IntV("int64", 3), IntV("int64", 4)}) >>]

Unsigned ==
  [PkgPath |-> "main", Name |-> "Unsigned", Kind |-> "struct",
   Fields |-> <<
     Field(<<"A", "">>, KindT("uint8"), Bounded,
           {IntV("uint8", 2), IntV("uint8", 3), IntV("uint8", 4)}),
     Field(<<"B", "">>, KindT("uint"), Bounded,
           {IntV("uint", 2), IntV("uint", 3), IntV("uint", 4)}),
     Field(<<"C", "">>, StringT, Bounded,
           {StrV(<<"a", "b">>), StrV(<<"a", "b", "c">>), StrV(<<"a", "b", "c", "d">>)}) >>]

\* A record of three dates in the default layout: the day before the run, the
\* day of the run and the day after.
DayText(d) == <<"2", "0", "2", "6", "-", "1", "1", "-", "0", d>>

Days == {StrV(DayText("4")), StrV(DayText("5")), StrV(DayText("6"))}

Event ==
  [PkgPath |-> "main", Name |-> "Event", Kind |-> "struct",
   Fields |-> <<
     Field(<<"D", "ay">>, StringT, [validator |-> <<"today">>], Days),
     Field(<<"S", "tart">>, StringT, [validator |-> <<"before_today">>], Days),
     Field(<<"E", "nd">>, StringT, [validator |-> <<"after_today">>], Days) >>]

\* A sub-record with an Age, and three records that hold it: embedded beside a
\* field of another name, as a named field, and embedded beside an Age of the
\* outer record.
Inner ==
  [PkgPath |-> "main", Name |-> "Inner", Kind |-> "struct",
   Fields |-> <<
     Field(<<"A", "ge">>, IntT, [validator |-> <<"min", "(", "18", ")">>],
           {IntV("int", 10), IntV("int", 20)}) >>]

Lodger ==
  [PkgPath |-> "main", Name |-> "Lodger", Kind |-> "struct",
   Fields |-> <<
     Embedded(<<"I", "nner">>, "Inner"),
     Field(<<"B", "ar">>, IntT,
           [validator |-> <<"min", "(", "10", ")", "|", "max", "(", "20", ")">>],
           {IntV("int", 15)}) >>]

Tenant ==
  [PkgPath |-> "main", Name |-> "Tenant", Kind |-> "struct",
   Fields |-> <<
     Field(<<"I", "n">>, StructT("Inner"), NoTag, {}),
     Field(<<"B", "ar">>, IntT,
           [validator |-> <<"min", "(", "10", ")", "|", "max", "(", "20", ")">>],
           {IntV("int", 15)}) >>]

Shadow ==
  [PkgPath |-> "main", Name |-> "Shadow", Kind |-> "struct",
   Fields |-> <<
     Embedded(<<"I", "nner">>, "Inner"),
     Field(<<"A", "ge">>, IntT, [validator |-> <<"max", "(", "5", ")">>],
           {IntV("int", 3), IntV("int", 30)}) >>]

\* A record whose fields carry every tag channel under two names, the packaged
\* one and one an application switches to with SetupOptions.
Form ==
  [PkgPath |-> "main", Name |-> "Form", Kind |-> "struct",
   Fields |-> <<
     Field(<<"M", "ail">>, StringT,
           [validator |-> <<"email">>, check |-> <<"uuid4">>, clean |-> <<"trim">>,
            label |-> <<"E-mail">>, title |-> <<"Address">>, text |-> <<"bad address">>],
           {StrV(<<"a">>), StrV(<<" ", "b">>)}),
     Field(<<"L", "evel">>, IntT,
           [validator |-> <<"min", "(", "1", ")">>, check |-> <<"max", "(", "1", ")">>,
            trigger |-> <<"create">>, when |-> <<"update">>,
            marks |-> <<"allow_zero">>, message |-> <<"too low">>],
           {IntV("int", 0), IntV("int", 2)}),
     Field(<<"N", "ame">>, StringT, [filter |-> <<"trim">>], {StrV(<<" ", "n">>)}) >>]

\* The types of the applications, under the names the model gives them.
TypeNames ==
  {"Person", "Agent", "Member", "Doc", "int", "TestValidator.MyStruct",
   "TestCustomFunctions.MyStruct", "struct2", "Struct1", "TestNested.MyStruct", "Profile",
   "Limits", "Account", "Item", "Order", "struct#1", "struct#2", "Flagged",
   "Note", "Signed", "Unsigned", "Event", "Inner", "Lodger", "Tenant", "Shadow",
   "Form"}

Types ==
  [t \in TypeNames |->
     CASE t = "Person" -> Person
       [] t = "Agent"  -> Agent
       [] t = "Member" -> Member
       [] t = "Doc"    -> Doc
       [] t = "int"    -> IntType
       [] t = "TestValidator.MyStruct" -> MyStructOfTestValidator
       [] t = "TestCustomFunctions.MyStruct" -> MyStructOfTestCustomFunctions
       [] t = "struct2" -> struct2
       [] t = "Struct1" -> Struct1
       [] t = "TestNested.MyStruct" -> MyStructOfTestNested
       [] t = "Profile" -> Profile
       [] t = "Limits"  -> Limits
       [] t = "Account" -> Account
       [] t = "Item"    -> Item
       [] t = "Order"   -> Order
       [] t = "struct#1" -> Unnamed1
       [] t = "struct#2" -> Unnamed2
       [] t = "Flagged" -> Flagged
       [] t = "Note" -> Note
       [] t = "Signed" -> Signed
       [] t = "Unsigned" -> Unsigned
       [] t = "Event" -> Event
       [] t = "Inner" -> Inner
       [] t = "Lodger" -> Lodger
       [] t = "Tenant" -> Tenant
       [] t = "Shadow" -> Shadow
       [] t = "Form" -> Form]

\* An application: the record types it validates and the functions and option
\* callbacks its initialisation code holds.
Apps ==
  [a \in {"people", "agents", "members", "docs", "tests", "nested", "orders", "unnamed",
          "flags", "notes", "sizes", "events", "houses", "forms"} |->
     CASE a = "people" ->
            [types |-> {"Person"}, validators |-> {},
             filters |-> {<<<<"add_five">>, "addFive">>}]
       [] a = "agents" ->
            [types |-> {"Agent"}, validators |-> {},
             filters |-> {<<<<"square">>, "squarePointer">>, <<<<"square">>, "squareValue">>}]
       [] a = "members" ->
            [types |-> {"Member"}, validators |-> {<<<<"range">>, "rangeFn">>},
             filters |-> {}]
       [] a = "docs" ->
            [types |-> {"Doc"}, validators |-> {<<<<"required">>, "IsRequired">>},
             filters |-> {<<<<"trim">>, "Trim">>, <<<<"required">>, "Trim">>}]
       [] a = "tests" ->
            [types |-> {"TestValidator.MyStruct", "TestCustomFunctions.MyStruct"},
             validators |-> {<<<<"range">>, "rangeFn">>},
             filters |-> {<<<<"upper">>, "upperValue">>, <<<<"square">>, "squareValue">>}]
       [] a = "nested" ->
            [types |-> {"TestNested.MyStruct", "Account"}, validators |-> {},
             filters |-> {<<<<"square">>, "squareValue">>}]
       [] a = "orders" ->
            [types |-> {"Order"}, validators |-> {<<<<"range">>, "rangeFn">>},
             filters |-> {}]
       [] a = "unnamed" ->
            [types |-> {"struct#1", "struct#2"}, validators |-> {}, filters |-> {}]
       [] a = "flags" ->
            [types |-> {"Flagged"}, validators |-> {<<<<"required">>, "IsRequired">>},
             filters |-> {<<<<"square">>, "squarePointer">>, <<<<"add_five">>, "addFive">>}]
       [] a = "notes" ->
            [types |-> {"Note"}, validators |-> {}, filters |-> {}]
       [] a = "sizes" ->
            [types |-> {"Signed", "Unsigned"}, validators |-> {}, filters |-> {}]
       [] a = "events" ->
            [types |-> {"Event"}, validators |-> {}, filters |-> {}]
       [] a = "houses" ->
            [types |-> {"Lodger", "Tenant", "Shadow"}, validators |-> {}, filters |-> {}]
       [] a = "forms" ->
            [types |-> {"Form"}, validators |-> {}, filters |-> {}]]

\* The applications whose records are flat structs of named types.
MainApps == {"people", "agents", "members", "docs"}

\* The applications with nested records, with types that share a name, and with
\* types that have none.
TypeApps == {"tests", "nested", "orders", "unnamed"}

\* ------------------------------------------------------------------ getStructFields

\* The cache key: the package path and the type's name, empty without a package path.
typeKey(t) == IF t.PkgPath = "" THEN <<>> ELSE <<t.PkgPath, ".", t.Name>>

RECURSIVE walkFieldsFlat(_, _, _, _, _, _)
\* The inner loop passing over the fields that are structs.
walkFieldsFlat(fields, stack, contexts, opts, validators, filters) ==
  IF Len(fields) = 0 THEN [stack |-> stack, contexts |-> contexts, panic |-> FALSE]
  ELSE LET field == fields[1]
           Parsed(parsed) ==
             IF parsed.panic THEN [stack |-> stack, contexts |-> contexts, panic |-> TRUE]
             ELSE walkFieldsFlat(Tail(fields), stack,
                                 IF parsed.nil THEN contexts ELSE Append(contexts, parsed.fc),
                                 opts, validators, filters)
       IN IF field.Type.Kind = "struct"
          THEN walkFieldsFlat(Tail(fields), stack, contexts, opts, validators, filters)
          ELSE Parsed(mustParseField(field, opts, validators, filters))

RECURSIVE walkFieldsInline(_, _, _, _, _, _)
\* The inner loop descending into a struct field where it meets it.
walkFieldsInline(fields, stack, contexts, opts, validators, filters) ==
  IF Len(fields) = 0 THEN [stack |-> stack, contexts |-> contexts, panic |-> FALSE]
  ELSE LET field == fields[1]
           Parsed(parsed) ==
             IF parsed.panic THEN [stack |-> stack, contexts |-> contexts, panic |-> TRUE]
             ELSE walkFieldsInline(Tail(fields), stack,
                                   IF parsed.nil THEN contexts ELSE Append(contexts, parsed.fc),
                                   opts, validators, filters)
       IN IF field.Type.Kind = "struct"
          THEN walkFieldsInline(Types[field.Type.Struct].Fields \o Tail(fields), stack,
                                contexts, opts, validators, filters)
          ELSE Parsed(mustParseField(field, opts, validators, filters))

RECURSIVE walkFields(_, _, _, _, _, _)
\* The inner loop of getStructFields over the fields of one struct type.
walkFields(fields, stack, contexts, opts, validators, filters) ==
  IF Len(fields) = 0 THEN [stack |-> stack, contexts |-> contexts, panic |-> FALSE]
  ELSE LET field == fields[1]
           Parsed(parsed) ==
             IF parsed.panic THEN [stack |-> stack, contexts |-> contexts, panic |-> TRUE]
             ELSE walkFields(Tail(fields), stack,
                             IF parsed.nil THEN contexts ELSE Append(contexts, parsed.fc),
                             opts, validators, filters)
       IN IF field.Type.Kind = "struct"
          THEN walkFields(Tail(fields), Append(stack, field.Type.Struct), contexts,
                          opts, validators, filters)
          ELSE Parsed(mustParseField(field, opts, validators, filters))

RECURSIVE walkStack(_, _, _, _, _)
\* The outer loop of getStructFields: pop a type, walk its fields.  NumField
\* panics on a type that is no struct.
walkStack(stack, contexts, opts, validators, filters) ==
  IF Len(stack) = 0 THEN [contexts |-> contexts, panic |-> FALSE]
  ELSE LET structType == Types[stack[Len(stack)]]
           popped     == Sub(stack, 1, Len(stack) - 1)
           Walked(w)  ==
             IF w.panic THEN [contexts |-> contexts, panic |-> TRUE]
             ELSE walkStack(w.stack, w.contexts, opts, validators, filters)
       IN IF structType.Kind # "struct" THEN [contexts |-> contexts, panic |-> TRUE]
          ELSE Walked(walkFields(structType.Fields, popped, contexts, opts, validators,
                                 filters))

\* getStructFields walking the type and storing the result on every call.
getStructFieldsAlways(t, opts, validators, filters, theCache) ==
  LET Walked(w) ==
        IF w.panic
        THEN [contexts |-> <<>>, cache |-> theCache, panic |-> TRUE, compiled |-> FALSE]
        ELSE [contexts |-> w.contexts, cache |-> (typeKey(Types[t]) :> w.contexts) @@ theCache,
              panic |-> FALSE, compiled |-> TRUE]
  IN Walked(walkStack(<<t>>, <<>>, opts, validators, filters))

\* getStructFields: the contexts, the cache afterwards, and whether it compiled.
getStructFields(t, opts, validators, filters, theCache) ==
  LET fullyQualifiedStructName == typeKey(Types[t])
      Walked(w) ==
        IF w.panic
        THEN [contexts |-> <<>>, cache |-> theCache, panic |-> TRUE, compiled |-> FALSE]
        ELSE [contexts |-> w.contexts,
              cache |-> (fullyQualifiedStructName :> w.contexts) @@ theCache,
              panic |-> FALSE, compiled |-> TRUE]
  IN IF fullyQualifiedStructName \in DOMAIN theCache
     THEN [contexts |-> theCache[fullyQualifiedStructName], cache |-> theCache,
           panic |-> FALSE, compiled |-> FALSE]
     ELSE Walked(walkStack(<<t>>, <<>>, opts, validators, filters))

\* ------------------------------------------------------------------ records

RECURSIVE LeafPaths(_)
\* The storage locations of a record of type t: the paths to its non-struct fields.
LeafPaths(t) ==
  LET fields == Types[t].Fields IN
  UNION {IF fields[i].Type.Kind = "struct"
         THEN {<<fields[i].Name>> \o p : p \in LeafPaths(fields[i].Type.Struct)}
         ELSE {<<fields[i].Name>>} : i \in 1..Len(fields)}

RECURSIVE FieldAt(_, _)
FieldAt(t, path) ==
  LET fields == Types[t].Fields
      i == CHOOSE i \in 1..Len(fields) : fields[i].Name = path[1]
  IN IF Len(path) = 1 THEN fields[i] ELSE FieldAt(fields[i].Type.Struct, Tail(path))

RECURSIVE RecordsOver(_, _)
\* The assignments of one of its Values to every field at the given paths.
RecordsOver(t, paths) ==
  IF paths = {} THEN {[p \in {} |-> Invalid]}
  ELSE LET path == CHOOSE p \in paths : TRUE
       IN {(path :> v) @@ r : v \in FieldAt(t, path).Values,
                              r \in RecordsOver(t, paths \ {path})}

\* The records of type t the caller can build.
Records(t) == RecordsOver(t, LeafPaths(t))

RECURSIVE fieldByNameAt(_, _)
\* reflect's FieldByName: the shallowest depth that holds the name decides, and
\* only embedded structs are searched; two matches at that depth find nothing.
fieldByNameAt(level, name) ==
  LET matches ==
        UNION {{e.path \o <<Types[e.t].Fields[i].Name>> :
                  i \in {j \in 1..Len(Types[e.t].Fields) : Types[e.t].Fields[j].Name = name}} :
               e \in level}
      deeper ==
        UNION {{[path |-> e.path \o <<Types[e.t].Fields[i].Name>>,
                 t |-> Types[e.t].Fields[i].Type.Struct] :
                  i \in {j \in 1..Len(Types[e.t].Fields) :
                           /\ Types[e.t].Fields[j].Type.Kind = "struct"
                           /\ Types[e.t].Fields[j].Anonymous}} :
               e \in level}
  IN IF level = {} THEN [found |-> FALSE, path |-> <<>>]
     ELSE IF matches # {}
     THEN IF Cardinality(matches) = 1
          THEN [found |-> TRUE, path |-> CHOOSE p \in matches : TRUE]
          ELSE [found |-> FALSE, path |-> <<>>]
     ELSE fieldByNameAt(deeper, name)

FieldByName(t, name) == fieldByNameAt({[path |-> <<>>, t |-> t]}, name)

\* ------------------------------------------------------------------ rule-chain executor

\* fieldContext.isFlagSet, fieldContext.isZero, fieldContext.activate
isFlagSet(fc, flag) == Contains(fc.flags, flag)

\* isZero that finds no value equal to the zero value.
isZeroNever(fc, v) == FALSE

isZero(fc, v) == v.k # "invalid" /\ fc.zeroValue = v

\* activate with the "all" wildcard forgotten, and activate with no gating at all.
activateExactOnly(fc, trigger) == Contains(fc.triggers, trigger)

activateEveryField(fc, trigger) == TRUE

activate(fc, trigger) ==
  IF ~Contains(fc.triggers, trigger) THEN Contains(fc.triggers, <<"all">>) ELSE TRUE

NewContext(ispointer, isnull, opts, args, value, kind, now) ==
  [IsPointer |-> ispointer, IsNull |-> isnull, Options |-> opts, Args |-> args,
   value |-> value, valueKind |-> kind, now |-> now]

\* The message with the validator's own message put before the field's template.
errorMessageContextFirst(fc, validator, ctxErrorMessage, opts) ==
  IF Len(ctxErrorMessage) > 0 THEN ctxErrorMessage
  ELSE IF fc.hasMessagTemplate THEN fc.fieldMessageTemplate
  ELSE fc.fieldLabel \o <<": field validation failed">> \o
       (IF opts.ExposeValidatorNames THEN <<" using function ">> \o validator.name ELSE <<>>)

\* The message apply gives the FieldError of a validator that returned false.
errorMessage(fc, validator, ctxErrorMessage, opts) ==
  IF fc.hasMessagTemplate THEN fc.fieldMessageTemplate
  ELSE IF Len(ctxErrorMessage) > 0 THEN ctxErrorMessage
  ELSE fc.fieldLabel \o <<": field validation failed">> \o
       (IF opts.ExposeValidatorNames THEN <<" using function ">> \o validator.name ELSE <<>>)

\* apply returning after every failure, and after none.
alwaysStops(opts) == TRUE

neverStops(opts) == FALSE

\* Whether apply returns at once after a validator that failed.
stopAfterError(opts) == opts.StopOnFirstError

RECURSIVE applyValidators(_, _, _, _, _, _, _)
\* The first loop of apply, from validator i on: the FieldErrors, the calls made
\* (each with the verdict and the message the function left on its context),
\* whether the loop returned early, whether a function panicked.
applyValidators(fc, i, value, ispointer, isnull, opts, now) ==
  IF i > Len(fc.validators)
  THEN [errorList |-> <<>>, calls |-> <<>>, stopped |-> FALSE, panic |-> FALSE]
  ELSE LET validator == fc.validators[i]
           Step(r, rest) ==
             LET call == [rule |-> "validator", index |-> i, name |-> validator.name,
                          fn |-> validator.fn, ok |-> r.ok, msg |-> r.msg, value |-> value]
                 fe   == [Field |-> fc.fieldLabel,
                          Message |-> errorMessage(fc, validator, r.msg, opts)]
             IN IF r.panic
                THEN [errorList |-> <<>>, calls |-> <<call>>, stopped |-> FALSE,
                      panic |-> TRUE]
                ELSE IF ~r.ok /\ stopAfterError(opts)
                THEN [errorList |-> <<fe>>, calls |-> <<call>>, stopped |-> TRUE,
                      panic |-> FALSE]
                ELSE [errorList |-> (IF r.ok THEN <<>> ELSE <<fe>>) \o rest.errorList,
                      calls |-> <<call>> \o rest.calls,
                      stopped |-> rest.stopped, panic |-> rest.panic]
       IN Step(CallValidator(validator.fn,
                             NewContext(ispointer, isnull, opts, validator.args, value,
                                        fc.fieldKind, now)),
               applyValidators(fc, i + 1, value, ispointer, isnull, opts, now))

\* reflect.Value.Set: the new value must be valid and of the field's type.
Assignable(newValue, old) ==
  newValue.k # "invalid" /\ newValue.ptr = old.ptr /\ newValue.k = old.k

\* The second loop of apply left out.
applyNoFilters(fc, i, value, ispointer, isnull, opts, now) ==
  [value |-> value, calls |-> <<>>, panic |-> FALSE]

\* The filter loop handing every filter the value the field held at first.
RECURSIVE applyFiltersUnchained(_, _, _, _, _, _, _)
applyFiltersUnchained(fc, i, value, ispointer, isnull, opts, now) ==
  IF i > Len(fc.filters) THEN [value |-> value, calls |-> <<>>, panic |-> FALSE]
  ELSE LET filter == fc.filters[i]
           Step(r) ==
             LET call == [rule |-> "filter", index |-> i, name |-> filter.name,
                          fn |-> filter.fn, ok |-> ~r.panic, msg |-> <<>>, value |-> value]
                 Continue(rest) ==
                   [value |-> IF i = Len(fc.filters) THEN r.val ELSE rest.value,
                    calls |-> <<call>> \o rest.calls, panic |-> rest.panic]
             IN IF r.panic \/ ~Assignable(r.val, r.store)
                THEN [value |-> r.store, calls |-> <<call>>, panic |-> TRUE]
                ELSE Continue(applyFiltersUnchained(fc, i + 1, value, ispointer, isnull,
                                                    opts, now))
       IN Step(CallFilter(filter.fn,
                          NewContext(ispointer, isnull, opts, filter.args, value,
                                     fc.fieldKind, now)))

RECURSIVE applyFilters(_, _, _, _, _, _, _)
\* The second loop of apply, from filter i on: the field's value afterwards, the
\* calls made, whether a function or Set panicked.
applyFilters(fc, i, value, ispointer, isnull, opts, now) ==
  IF i > Len(fc.filters) THEN [value |-> value, calls |-> <<>>, panic |-> FALSE]
  ELSE LET filter == fc.filters[i]
           Step(r) ==
             LET call == [rule |-> "filter", index |-> i, name |-> filter.name,
                          fn |-> filter.fn, ok |-> ~r.panic, msg |-> <<>>, value |-> value]
                 Continue(rest) ==
                   [value |-> rest.value, calls |-> <<call>> \o rest.calls,
                    panic |-> rest.panic]
             IN IF r.panic \/ ~Assignable(r.val, r.store)
                THEN [value |-> r.store, calls |-> <<call>>, panic |-> TRUE]
                ELSE Continue(applyFilters(fc, i + 1, r.val, ispointer, isnull, opts, now))
       IN Step(CallFilter(filter.fn,
                          NewContext(ispointer, isnull, opts, filter.args, value,
                                     fc.fieldKind, now)))

\* apply running its filters after the return that follows a failure.
returnsOnPanicOnly(v) == v.panic

\* Whether apply returns out of its validator loop, before any filter: on a panic,
\* and on the return that follows a failure under StopOnFirstError.
returnsBeforeFilters(v) == v.panic \/ v.stopped

\* fieldContext.apply on a record of type t with the values vals: the errorList it
\* returns, the record afterwards, the calls it made, whether the allow_zero flag
\* made it return before any rule, whether it panicked.
\* apply running the filters of the field first and giving its validators the
\* value the filters left.
applyFiltersFirst(fc, t, vals, opts, now) ==
  LET Result(errorList, newVals, calls, skipped, panic) ==
        [errorList |-> errorList, vals |-> newVals, calls |-> calls,
         skipped |-> skipped, panic |-> panic]
      Rules(path, value, ispointer, isnull) ==
        LET Validators(f, v) ==
              Result(v.errorList, [vals EXCEPT ![path] = f.value], f.calls \o v.calls,
                     FALSE, f.panic \/ v.panic)
            Filters(f) ==
              IF f.panic THEN Result(<<>>, vals, f.calls, FALSE, TRUE)
              ELSE Validators(f, applyValidators(fc, 1, f.value, ispointer, isnull,
                                                 opts, now))
        IN Filters(applyFilters(fc, 1, value, ispointer, isnull, opts, now))
      Found(field) ==
        IF ~field.found \/ field.path \notin DOMAIN vals
        THEN Result(<<>>, vals, <<>>, FALSE, TRUE)
        ELSE Rules(field.path, vals[field.path], vals[field.path].ptr,
                   vals[field.path].ptr /\ vals[field.path].null)
  IN Found(FieldByName(t, fc.fieldName))

apply(fc, t, vals, opts, now) ==
  LET Result(errorList, newVals, calls, skipped, panic) ==
        [errorList |-> errorList, vals |-> newVals, calls |-> calls,
         skipped |-> skipped, panic |-> panic]
      Rules(path, value, ispointer, isnull) ==
        LET skip == /\ isFlagSet(fc, AllowZero)
                    /\ IF ispointer THEN value.null \/ isZero(fc, Elem(value))
                       ELSE isZero(fc, value)
            Filters(v, f) ==
              IF returnsBeforeFilters(v)
              THEN Result(v.errorList, vals, v.calls, FALSE, v.panic)
              ELSE Result(v.errorList, [vals EXCEPT ![path] = f.value],
                          v.calls \o f.calls, FALSE, f.panic)
        IN IF skip THEN Result(<<>>, vals, <<>>, TRUE, FALSE)
           ELSE Filters(applyValidators(fc, 1, value, ispointer, isnull, opts, now),
                        applyFilters(fc, 1, value, ispointer, isnull, opts, now))
      Found(field) ==
        IF ~field.found \/ field.path \notin DOMAIN vals
        THEN Result(<<>>, vals, <<>>, FALSE, TRUE)
        ELSE Rules(field.path, vals[field.path], vals[field.path].ptr,
                   vals[field.path].ptr /\ vals[field.path].null)
  IN Found(FieldByName(t, fc.fieldName))

\* ------------------------------------------------------------------ Validate

NoError == <<>>

newValidationError(msg) == msg

KindString(t) == Types[t].Kind

RECURSIVE validateFields(_, _, _, _, _, _, _)
\* The loop of Validate over the fieldContexts, from context i on.  steps holds,
\* for each field that was activated, what apply did.
validateFields(fieldContexts, i, t, vals, activationTrigger, opts, now) ==
  IF i > Len(fieldContexts)
  THEN [FieldErrors |-> <<>>, vals |-> vals, steps |-> <<>>, panic |-> FALSE]
  ELSE LET fc == fieldContexts[i]
           Applied(errs) ==
             LET step == [index |-> i, calls |-> errs.calls, skipped |-> errs.skipped,
                          errorList |-> errs.errorList]
                 Continue(rest) ==
                   [FieldErrors |-> errs.errorList \o rest.FieldErrors,
                    vals |-> rest.vals, steps |-> <<step>> \o rest.steps,
                    panic |-> rest.panic]
             IN IF errs.panic
                THEN [FieldErrors |-> <<>>, vals |-> errs.vals, steps |-> <<step>>,
                      panic |-> TRUE]
                ELSE Continue(validateFields(fieldContexts, i + 1, t, errs.vals,
                                             activationTrigger, opts, now))
       IN IF ~activate(fc, activationTrigger)
          THEN validateFields(fieldContexts, i + 1, t, vals, activationTrigger, opts, now)
          ELSE Applied(apply(fc, t, vals, opts, now))

\* The valid flag computed from the structural error alone.
resultValidWithoutFieldErrors(Error, FieldErrors) == Error = NoError

\* The valid flag Validate stores before it returns.
resultValid(Error, FieldErrors) == Error = NoError /\ Len(FieldErrors) = 0

\* Validate(structPtr, trigger...): isPtr says the argument is a pointer, t names
\* the type it points to (or has), vals the record's field values.
Validate(isPtr, t, vals, trigger, opts, validators, filters, theCache, now) ==
  LET activationTrigger == IF Len(trigger) > 0 THEN trigger[1] ELSE <<"all">>
      Outcome(Error, FieldErrors, valid, newVals, compiled, schema, steps, panic) ==
        [res |-> [valid |-> valid, Error |-> Error, FieldErrors |-> FieldErrors],
         vals |-> newVals, cache |-> compiled.cache, schema |-> schema, steps |-> steps,
         panic |-> panic, compiled |-> compiled.compiled]
      NotCompiled == [cache |-> theCache, compiled |-> FALSE]
      Loop(compiled, loop) ==
        IF loop.panic
        THEN Outcome(NoError, <<>>, FALSE, loop.vals, compiled, compiled.contexts,
                     loop.steps, TRUE)
        ELSE Outcome(NoError, loop.FieldErrors, resultValid(NoError, loop.FieldErrors),
                     loop.vals, compiled, compiled.contexts, loop.steps, FALSE)
      Compiled(compiled) ==
        IF compiled.panic
        THEN Outcome(NoError, <<>>, FALSE, vals, NotCompiled, <<>>, <<>>, TRUE)
        ELSE Loop(compiled,
                  validateFields(compiled.contexts, 1, t, vals, activationTrigger, opts, now))
  IN IF ~isPtr
     THEN Outcome(newValidationError(<<"Invalid input type. Expected struct pointer but found ",
                                       KindString(t)>>),
                  <<>>, FALSE, vals, NotCompiled, <<>>, <<>>, FALSE)
     ELSE Compiled(getStructFields(t, opts, validators, filters, theCache))

\* ------------------------------------------------------------------ the program

\* time.Now() during the run: some moment of one day, after its midnight.
Now ==
  [TimeParse(DefaultLayout, <<"2", "0", "2", "6", "-", "1", "1", "-", "0", "5">>)
     EXCEPT !.past = TRUE]

\* No tag is being parsed on its own.
NoParsing ==
  [source |-> <<>>, decl |-> <<>>, channel |-> "", done |-> FALSE, panic |-> FALSE,
   rules |-> <<>>]

\* The variadic trigger argument the callers pass.
Triggers == {<<>>, <<<<"create">>>>, <<<<"update">>>>}

\* The arguments a caller holding the record passes: a pointer to it, the record
\* itself, or a pointer to a value that is no struct.
Arguments ==
  {[isPtr |-> TRUE, t |-> rec.type], [isPtr |-> FALSE, t |-> rec.type],
   [isPtr |-> TRUE, t |-> "int"]}

\* The configCallback functions the applications pass to SetupOptions.
Callbacks == {"StopOnFirstError", "ExposeValidatorNames", "NoPanicOnFunctionConflict"}

NoAdd == [op |-> "", name |-> <<>>, fn |-> "", panicked |-> FALSE]

NoCall ==
  [called |-> FALSE, panicked |-> FALSE, isPtr |-> FALSE, t |-> "", trigger |-> <<>>,
   opts |-> DefaultOptions, pre |-> <<>>, post |-> <<>>,
   res |-> [valid |-> FALSE, Error |-> NoError, FieldErrors |-> <<>>],
   schema |-> <<>>, steps |-> <<>>, compiled |-> FALSE, added |-> NoAdd]

Init ==
  /\ app \in MainApps
  /\ validatorFunctions = BuiltinValidators
  /\ filterFunctions = BuiltinFilters
  /\ globalOptions = DefaultOptions
  /\ cache = <<>>
  /\ \E t \in Apps[app].types : \E vals \in Records(t) :
       rec = [type |-> t, vals |-> vals, calls |-> 0]
  /\ last = NoCall
  /\ callers = <<>>
  /\ parsing = NoParsing

\* The caller builds another record.
NewRecord ==
  /\ \E t \in Apps[app].types : \E vals \in Records(t) :
       /\ [type |-> t, vals |-> vals, calls |-> 0] # rec
       /\ rec' = [type |-> t, vals |-> vals, calls |-> 0]
  /\ last' = NoCall
  /\ UNCHANGED <<validatorFunctions, filterFunctions, globalOptions, cache, app, callers, parsing>>

\* SetupOptions(configCallback)
SetupOptions ==
  /\ \E option \in Callbacks : globalOptions' = [globalOptions EXCEPT ![option] = ~@]
  /\ last' = NoCall
  /\ UNCHANGED <<validatorFunctions, filterFunctions, cache, rec, app, callers, parsing>>

\* Whether AddValidator and AddFilter panic: the name exists in their map and
\* conflicts are not tolerated.
addPanics(functions, name, opts) ==
  name \in DOMAIN functions /\ ~opts.NoPanicOnFunctionConflict

\* A registration that leaves the map as it is only when the function is the same.
addFunctionAlways(functions, name, v, opts) == (name :> v) @@ functions

\* What AddValidator and AddFilter leave in the registry; with a name that exists
\* and panics on conflicts they panic and the registry stays as it was.
addFunction(functions, name, v, opts) ==
  IF name \in DOMAIN functions /\ ~opts.NoPanicOnFunctionConflict THEN functions
  ELSE (name :> v) @@ functions

\* What a registration leaves behind for the observer: the operation, the name,
\* the function and whether it panicked.
Added(op, name, v, panicked) ==
  [NoCall EXCEPT !.added = [op |-> op, name |-> name, fn |-> v, panicked |-> panicked]]

\* AddValidator(name, v)
AddValidator ==
  /\ \E e \in Apps[app].validators :
       /\ validatorFunctions' = addFunction(validatorFunctions, e[1], e[2], globalOptions)
       /\ last' = Added("AddValidator", e[1], e[2],
                        addPanics(validatorFunctions, e[1], globalOptions))
  /\ UNCHANGED <<filterFunctions, globalOptions, cache, rec, app, callers, parsing>>

\* AddFilter(name, v)
AddFilter ==
  /\ \E e \in Apps[app].filters :
       /\ filterFunctions' = addFunction(filterFunctions, e[1], e[2], globalOptions)
       /\ last' = Added("AddFilter", e[1], e[2],
                        addPanics(filterFunctions, e[1], globalOptions))
  /\ UNCHANGED <<validatorFunctions, globalOptions, cache, rec, app, callers, parsing>>

\* A call of Validate on the record, or on something that is no struct pointer.
ValidateCall ==
  /\ rec.calls < MaxCalls
  /\ \E arg \in Arguments : \E trigger \in Triggers :
       LET Return(out) ==
             /\ cache' = out.cache
             /\ rec' = [rec EXCEPT !.vals = out.vals, !.calls = @ + 1]
             /\ last' = [called |-> TRUE, panicked |-> out.panic, isPtr |-> arg.isPtr,
                         t |-> arg.t, trigger |-> trigger, opts |-> globalOptions,
                         pre |-> rec.vals, post |-> out.vals, res |-> out.res,
                         schema |-> out.schema, steps |-> out.steps,
                         compiled |-> out.compiled, added |-> NoAdd]
       IN Return(Validate(arg.isPtr, arg.t, rec.vals, trigger, globalOptions,
                          validatorFunctions, filterFunctions, cache, Now))
  /\ UNCHANGED <<validatorFunctions, filterFunctions, globalOptions, app, callers, parsing>>

Next == NewRecord \/ SetupOptions \/ AddValidator \/ AddFilter \/ ValidateCall

Spec == Init /\ [][Next]_vars

\* The applications that exercise single rules and flags.
RuleApps == {"flags", "notes", "sizes", "events", "houses"}

\* The same program run by the applications of RuleApps.
InitRules ==
  /\ app \in RuleApps
  /\ validatorFunctions = BuiltinValidators
  /\ filterFunctions = BuiltinFilters
  /\ globalOptions = DefaultOptions
  /\ cache = <<>>
  /\ \E t \in Apps[app].types : \E vals \in Records(t) :
       rec = [type |-> t, vals |-> vals, calls |-> 0]
  /\ last = NoCall
  /\ callers = <<>>
  /\ parsing = NoParsing

SpecRules == InitRules /\ [][Next]_vars

\* The applications that rename tag channels while they run.
OptionApps == {"forms"}

\* The configCallback functions that rename tag channels: the two rule channels,
\* the trigger and the flag channel, or the message and the label channel, each
\* switched between the packaged name and the application's.
Renamings == {"rules", "selection", "texts"}

Switch(name, packaged, other) == IF name = packaged THEN other ELSE packaged

Rename(opts, renaming) ==
  CASE renaming = "rules" ->
         [opts EXCEPT !.ValidatorTagName = Switch(@, "validator", "check"),
                      !.FilterTagName = Switch(@, "filter", "clean")]
    [] renaming = "selection" ->
         [opts EXCEPT !.TriggerTagName = Switch(@, "trigger", "when"),
                      !.FlagTagName = Switch(@, "flags", "marks")]
    [] renaming = "texts" ->
         [opts EXCEPT !.MessageTagName = Switch(@, "message", "text"),
                      !.LabelTagName = Switch(@, "label", "title")]

\* SetupOptions(configCallback) with a callback that renames tag channels.
SetupTagNames ==
  /\ \E renaming \in Renamings : globalOptions' = Rename(globalOptions, renaming)
  /\ last' = NoCall
  /\ UNCHANGED <<validatorFunctions, filterFunctions, cache, rec, app, callers, parsing>>

InitOptions ==
  /\ app \in OptionApps
  /\ validatorFunctions = BuiltinValidators
  /\ filterFunctions = BuiltinFilters
  /\ globalOptions = DefaultOptions
  /\ cache = <<>>
  /\ \E t \in Apps[app].types : \E vals \in Records(t) :
       rec = [type |-> t, vals |-> vals, calls |-> 0]
  /\ last = NoCall
  /\ callers = <<>>
  /\ parsing = NoParsing

NextOptions == NewRecord \/ SetupOptions \/ SetupTagNames \/ ValidateCall

SpecOptions == InitOptions /\ [][NextOptions]_vars

\* The same program run by the applications of TypeApps.
InitTypes ==
  /\ app \in TypeApps
  /\ validatorFunctions = BuiltinValidators
  /\ filterFunctions = BuiltinFilters
  /\ globalOptions = DefaultOptions
  /\ cache = <<>>
  /\ \E t \in Apps[app].types : \E vals \in Records(t) :
       rec = [type |-> t, vals |-> vals, calls |-> 0]
  /\ last = NoCall
  /\ callers = <<>>
  /\ parsing = NoParsing

SpecTypes == InitTypes /\ [][Next]_vars

\* ------------------------------------------------------------------ concurrent callers

\* Goroutines that call Validate at the same time, each on a record of its own,
\* after the application has registered its functions.  A caller goes through
\* Validate and getStructFields step by step; cache.Get and cache.Store are the
\* atomic Load and Store of the sync.Map behind the cache, and the stack and the
\* contexts of a walk are local to the caller.
NumCallers == 2

ConcurrentApps == {"nested", "orders"}

\* The registry after the application's registrations.
Startup(functions, entries) ==
  [name \in DOMAIN functions \cup {e[1] : e \in entries} |->
     IF \E e \in entries : e[1] = name
     THEN (CHOOSE e \in entries : e[1] = name)[2]
     ELSE functions[name]]

Idle ==
  [pc |-> "idle", t |-> "", vals |-> <<>>, stack |-> <<>>, contexts |-> <<>>,
   compiled |-> FALSE, stored |-> FALSE, valid |-> FALSE]

InitConcurrent ==
  /\ app \in ConcurrentApps
  /\ validatorFunctions = Startup(BuiltinValidators, Apps[app].validators)
  /\ filterFunctions = Startup(BuiltinFilters, Apps[app].filters)
  /\ globalOptions = DefaultOptions
  /\ cache = <<>>
  /\ rec = [type |-> "", vals |-> <<>>, calls |-> 0]
  /\ last = NoCall
  /\ callers = [g \in 1..NumCallers |-> Idle]
  /\ parsing = NoParsing

\* for !stack.IsEmpty(): the walk of a caller has found an empty stack.
loopEndsAtOnce(stack) == TRUE

loopEnds(stack) == Len(stack) = 0

\* Validate is called with a pointer to a record of some type; the caller is
\* about to ask the cache.  What the record holds is read first by Run.
Call(g) ==
  /\ callers[g].pc = "idle"
  /\ \E t \in Apps[app].types :
       callers' = [callers EXCEPT ![g] = [Idle EXCEPT !.pc = "get", !.t = t]]
  /\ UNCHANGED <<validatorFunctions, filterFunctions, globalOptions, cache, rec, last, app, parsing>>

\* cache.Get: a hit returns the stored contexts, a miss starts a walk.
CacheGet(g) ==
  /\ callers[g].pc = "get"
  /\ callers' = [callers EXCEPT ![g] =
       IF typeKey(Types[callers[g].t]) \in DOMAIN cache
       THEN [@ EXCEPT !.pc = "run", !.contexts = cache[typeKey(Types[callers[g].t])]]
       ELSE [@ EXCEPT !.pc = "walk", !.stack = <<callers[g].t>>, !.contexts = <<>>]]
  /\ UNCHANGED <<validatorFunctions, filterFunctions, globalOptions, cache, rec, last, app, parsing>>

\* One round of the outer loop: pop a type and walk its fields.
Walk(g) ==
  /\ callers[g].pc = "walk"
  /\ ~loopEnds(callers[g].stack)
  /\ LET Walked(w) ==
           callers' = [callers EXCEPT ![g] =
             IF w.panic THEN [@ EXCEPT !.pc = "panicked"]
             ELSE [@ EXCEPT !.stack = w.stack, !.contexts = w.contexts]]
     IN Walked(walkFields(Types[callers[g].stack[Len(callers[g].stack)]].Fields,
                          Sub(callers[g].stack, 1, Len(callers[g].stack) - 1),
                          callers[g].contexts, globalOptions, validatorFunctions,
                          filterFunctions))
  /\ UNCHANGED <<validatorFunctions, filterFunctions, globalOptions, cache, rec, last, app, parsing>>

\* cache.Store after the loop: the caller's contexts replace what is there.
CacheStore(g) ==
  /\ callers[g].pc = "walk"
  /\ loopEnds(callers[g].stack)
  /\ cache' = (typeKey(Types[callers[g].t]) :> callers[g].contexts) @@ cache
  /\ callers' = [callers EXCEPT ![g] = [@ EXCEPT !.pc = "run", !.compiled = TRUE,
                                                 !.stored = TRUE]]
  /\ UNCHANGED <<validatorFunctions, filterFunctions, globalOptions, rec, last, app, parsing>>

\* Validate's loop over the contexts the caller obtained, on its own record.
Run(g) ==
  /\ callers[g].pc = "run"
  /\ \E vals \in Records(callers[g].t) :
     LET Done(loop) ==
           callers' = [callers EXCEPT ![g] =
             IF loop.panic THEN [@ EXCEPT !.pc = "panicked", !.vals = loop.vals]
             ELSE [@ EXCEPT !.pc = "done", !.vals = loop.vals,
                            !.valid = resultValid(NoError, loop.FieldErrors)]]
     IN Done(validateFields(callers[g].contexts, 1, callers[g].t, vals,
                            <<"all">>, globalOptions, Now))
  /\ UNCHANGED <<validatorFunctions, filterFunctions, globalOptions, cache, rec, last, app, parsing>>

NextConcurrent ==
  \E g \in 1..NumCallers : Call(g) \/ CacheGet(g) \/ Walk(g) \/ CacheStore(g) \/ Run(g)

SpecConcurrent == InitConcurrent /\ [][NextConcurrent]_vars

\* ------------------------------------------------------------------ rule declarations

\* The tag of one field parsed on its own: declarations written character by
\* character, those that follow the grammar of the README (name, name(),
\* name(a,b)) rendered from their names and arguments, and every other string
\* over the characters of the grammar up to MaxLen characters.
MaxLen == 5

MaxTokens == 2

ParserAlphabet == {"a", "(", ")", ",", "|"}

ParserNames == {<<"a">>, <<"a", "a">>}

ParserArgs == {<<>>, <<"a">>}

ArgLists ==
  {<<x>> : x \in ParserArgs \ {<<>>}} \cup {<<x, y>> : x \in ParserArgs, y \in ParserArgs}

\* A rule as the tag writes it, with the name and the arguments it stands for.
WellFormedTokens ==
  {[text |-> n, name |-> n, args |-> <<>>] : n \in ParserNames}
  \cup {[text |-> n \o <<"(", ")">>, name |-> n, args |-> <<>>] : n \in ParserNames}
  \cup {[text |-> n \o <<"(">> \o Join(a, ",") \o <<")">>, name |-> n, args |-> a] :
          n \in ParserNames, a \in ArgLists}

WellFormedDeclarations == UNION {[1..k -> WellFormedTokens] : k \in 1..MaxTokens}

DeclarationText(d) == Join([k \in 1..Len(d) |-> d[k].text], "|")

Strings == UNION {[1..k -> ParserAlphabet] : k \in 0..MaxLen}

\* The registry the tag is bound against: every name of the grammar is known.
ParserFunctions == [n \in ParserNames |-> "IsRequired"]

InitParser ==
  /\ app = "people"
  /\ validatorFunctions = BuiltinValidators
  /\ filterFunctions = BuiltinFilters
  /\ globalOptions = DefaultOptions
  /\ cache = <<>>
  /\ rec = [type |-> "", vals |-> <<>>, calls |-> 0]
  /\ last = NoCall
  /\ callers = <<>>
  /\ parsing \in {[NoParsing EXCEPT !.source = d, !.decl = DeclarationText(d)] :
                    d \in WellFormedDeclarations}
                 \cup {[NoParsing EXCEPT !.decl = text] : text \in Strings}

\* mustParseField on an exported field that carries the declaration in its
\* validator tag or in its filter tag.
ParseTag ==
  /\ ~parsing.done
  /\ \E channel \in {"validator", "filter"} :
       LET Bound(list) == [k \in 1..Len(list) |-> [name |-> list[k].name, args |-> list[k].args]]
           Parsed(p) ==
             parsing' = [parsing EXCEPT
                           !.done = TRUE, !.channel = channel, !.panic = p.panic,
                           !.rules = IF p.panic THEN <<>>
                                     ELSE IF channel = "validator" THEN Bound(p.fc.validators)
                                     ELSE Bound(p.fc.filters)]
       IN Parsed(mustParseField(Field(<<"F", "ield">>, StringT,
                                      [c \in {channel} |-> parsing.decl], {}),
                                globalOptions, ParserFunctions, ParserFunctions))
  /\ UNCHANGED <<validatorFunctions, filterFunctions, globalOptions, cache, rec, last, app,
                 callers>>

NextParser == ParseTag

SpecParser == InitParser /\ [][NextParser]_vars

\* ------------------------------------------------------------------ observations

\* The most recent call of Validate, as its caller sees it, when it returned.
Returned == last.called /\ ~last.panicked

\* The activation token of the call.
Token == IF Len(last.trigger) > 0 THEN last.trigger[1] ELSE <<"all">>

\* The Schema the call worked with, and for its i-th FieldSpec: the declared
\* field, its trigger set, whether the token selects it, its value before and after.
Schema == last.schema

Declared(i) == FieldAt(last.t, <<Schema[i].fieldName>>)

TriggerSet(i) == {Schema[i].triggers[k] : k \in 1..Len(Schema[i].triggers)}

Selected(i) == Token \in TriggerSet(i) \/ <<"all">> \in TriggerSet(i)

SelectedFields == {i \in 1..Len(Schema) : Selected(i)}

PreValue(i) == last.pre[<<Schema[i].fieldName>>]

PostValue(i) == last.post[<<Schema[i].fieldName>>]

\* Whether the skip-if-zero-or-null flag makes the call pass over field i.
Skipped(i) ==
  /\ \E k \in 1..Len(Schema[i].flags) : Schema[i].flags[k] = <<"allow_zero">>
  /\ \/ PreValue(i).ptr /\ PreValue(i).null
     \/ [PreValue(i) EXCEPT !.ptr = FALSE] = Zero(Schema[i].fieldKind)

Evaluated == {i \in SelectedFields : ~Skipped(i)}

\* What the call did with field i: the positions of its entry in the trace, the
\* validator and the filter invocations among its calls.
Steps(i) == {k \in 1..Len(last.steps) : last.steps[k].index = i}

StepOf(i) == last.steps[CHOOSE k \in Steps(i) : TRUE]

IsValidatorCall(c) == c.rule = "validator"

IsFilterCall(c) == c.rule = "filter"

ValidatorCalls(i) == SelectSeq(StepOf(i).calls, IsValidatorCall)

FilterCalls(i) == SelectSeq(StepOf(i).calls, IsFilterCall)

Indices(calls) == [k \in 1..Len(calls) |-> calls[k].index]

UpTo(n) == [k \in 1..n |-> k]

\* The verdict of validator j of field i on the value the field held at the call,
\* given to it on a context of its own.
Verdict(i, j) ==
  CallValidator(Schema[i].validators[j].fn,
                NewContext(PreValue(i).ptr, PreValue(i).ptr /\ PreValue(i).null, last.opts,
                           Schema[i].validators[j].args, PreValue(i), Schema[i].fieldKind, Now))

Failing(i) == {j \in 1..Len(Schema[i].validators) : ~Verdict(i, j).ok}

\* The FieldErrors of the result that name field i.
ErrorsOf(i) ==
  {k \in 1..Len(last.res.FieldErrors) : last.res.FieldErrors[k].Field = Schema[i].fieldLabel}

\* ------------------------------------------------------------------ C1

\* C1: for every Validate call that returns, valid is true if and only if the
\* result carries no structural error and its fieldErrors are empty; so valid =
\* false without a structural error comes with at least one FieldError.
C1_ValidIffNoErrors ==
  Returned =>
    /\ last.res.valid <=> (last.res.Error = <<>> /\ last.res.FieldErrors = <<>>)
    /\ (~last.res.valid /\ last.res.Error = <<>>) => Len(last.res.FieldErrors) >= 1

\* A call on a record returned invalid, with FieldErrors and no structural error.
C1_Witness ==
  /\ Returned /\ last.isPtr
  /\ ~last.res.valid /\ last.res.Error = <<>> /\ Len(last.res.FieldErrors) >= 1

\* ------------------------------------------------------------------ C2

\* C2: trigger gating.  For every compiled field and every activation token
\* ("all" when the caller gives none), Validate runs the field's rules iff the
\* field's trigger set contains the token or "all"; a field without a trigger tag
\* has the trigger set {"all"} and runs for every token; a field tagged only
\* "update" does not run for "create" and runs for "update".
C2_TriggerGating ==
  (Returned /\ last.isPtr) =>
    \A i \in 1..Len(Schema) :
      /\ (Steps(i) # {}) <=> Selected(i)
      /\ Cardinality(Steps(i)) <= 1
      /\ (Selected(i) /\ ~Skipped(i)) =>
           /\ Len(Schema[i].validators) > 0 =>
                /\ Len(StepOf(i).calls) > 0
                /\ StepOf(i).calls[1].rule = "validator" /\ StepOf(i).calls[1].index = 1
           /\ (Len(Schema[i].validators) = 0 /\ Len(Schema[i].filters) > 0) =>
                /\ Len(StepOf(i).calls) > 0
                /\ StepOf(i).calls[1].rule = "filter" /\ StepOf(i).calls[1].index = 1
      /\ "trigger" \notin DOMAIN Declared(i).Tag =>
           /\ TriggerSet(i) = {<<"all">>}
           /\ Steps(i) # {}
      /\ TriggerSet(i) = {<<"update">>} =>
           /\ Token = <<"create">> => Steps(i) = {}
           /\ Token = <<"update">> => Steps(i) # {}

\* Under the token "create" a field tagged only "update" was passed over while a
\* field without a trigger tag had its rules run.
C2_Witness ==
  /\ Returned /\ last.isPtr /\ Token = <<"create">>
  /\ \E i \in 1..Len(Schema) : TriggerSet(i) = {<<"update">>} /\ Steps(i) = {}
  /\ \E i \in 1..Len(Schema) :
       /\ "trigger" \notin DOMAIN Declared(i).Tag
       /\ Steps(i) # {} /\ Len(StepOf(i).calls) > 0

\* ------------------------------------------------------------------ C3

\* C3: frame of Validate.  A field the activation token does not select, and a
\* field without a FieldSpec, keeps the value it had before the call and
\* contributes no FieldError (Id, tagged trigger "update" with a failing min,
\* stays 0 and the result is valid under the token "create").
C3_Frame ==
  last.called =>
    /\ \A p \in DOMAIN last.pre :
         (\A i \in SelectedFields : p # <<Schema[i].fieldName>>) => last.post[p] = last.pre[p]
    /\ Returned =>
         \A k \in 1..Len(last.res.FieldErrors) :
           \E i \in SelectedFields : last.res.FieldErrors[k].Field = Schema[i].fieldLabel

\* Validate with "create" returned valid on a Person whose Id fails its min: the
\* Id, the unexported and the untagged field are as before, Age was filtered.
C3_Witness ==
  /\ Returned /\ last.isPtr /\ last.t = "Person" /\ Token = <<"create">>
  /\ last.res.valid
  /\ \E i \in 1..Len(Schema) :
       /\ ~Selected(i) /\ Failing(i) # {}
       /\ PreValue(i).n = 0 /\ PostValue(i).n = 0
  /\ last.post[<<<<"s", "ecret">>>>] = last.pre[<<<<"s", "ecret">>>>]
  /\ last.post[<<<<"N", "ote">>>>] = last.pre[<<<<"N", "ote">>>>]
  /\ last.post[<<<<"A", "ge">>>>] # last.pre[<<<<"A", "ge">>>>]

\* ------------------------------------------------------------------ C4

\* The label of field i and the FieldError the specification gives validator j
\* of field i when it fails: the template, else the validator's own message,
\* else the default naming the label (and the rule, when names are exposed).
Label(i) ==
  IF "label" \in DOMAIN Declared(i).Tag THEN Declared(i).Tag.label ELSE Schema[i].fieldName

ExpectedMessage(i, j) ==
  IF "message" \in DOMAIN Declared(i).Tag THEN Declared(i).Tag.message
  ELSE IF Verdict(i, j).msg # <<>> THEN Verdict(i, j).msg
  ELSE Label(i) \o <<": field validation failed">> \o
       (IF last.opts.ExposeValidatorNames
        THEN <<" using function ">> \o Schema[i].validators[j].name ELSE <<>>)

ExpectedError(i, j) == [Field |-> Label(i), Message |-> ExpectedMessage(i, j)]

RECURSIVE ErrorsOfField(_, _)
\* One FieldError per failing validator of field i, from validator j on.
ErrorsOfField(i, j) ==
  IF j > Len(Schema[i].validators) THEN <<>>
  ELSE (IF j \in Failing(i) THEN <<ExpectedError(i, j)>> ELSE <<>>) \o ErrorsOfField(i, j + 1)

RECURSIVE ErrorsFrom(_)
ErrorsFrom(i) ==
  IF i > Len(Schema) THEN <<>>
  ELSE (IF i \in Evaluated THEN ErrorsOfField(i, 1) ELSE <<>>) \o ErrorsFrom(i + 1)

\* C4: with stop-on-first-error disabled, the fieldErrors Validate returns are the
\* concatenation, over the selected fields in Schema order, of one FieldError per
\* failing validator of the field in rule-declaration order.
C4_ErrorsInOrder ==
  (Returned /\ last.isPtr /\ ~last.opts.StopOnFirstError) =>
    last.res.FieldErrors = ErrorsFrom(1)

\* Two fields each with two failing validators gave four errors, the first
\* field's before the second's.
C4_Witness ==
  /\ Returned /\ last.isPtr /\ ~last.opts.StopOnFirstError
  /\ \E i \in Evaluated : \E j \in Evaluated :
       /\ i < j /\ Cardinality(Failing(i)) = 2 /\ Cardinality(Failing(j)) = 2
       /\ Len(last.res.FieldErrors) = 4
       /\ ErrorsOf(i) = {1, 2} /\ ErrorsOf(j) = {3, 4}

\* ------------------------------------------------------------------ C5

FirstFailing(i) == CHOOSE j \in Failing(i) : \A k \in Failing(i) : j <= k

RECURSIVE FirstErrorsFrom(_)
FirstErrorsFrom(i) ==
  IF i > Len(Schema) THEN <<>>
  ELSE (IF i \in Evaluated /\ Failing(i) # {}
        THEN <<ExpectedError(i, FirstFailing(i))>> ELSE <<>>) \o FirstErrorsFrom(i + 1)

RECURSIVE Filtered(_, _, _)
\* The value the filters of field i make of a value, from filter j on, each
\* given what the one before it returned.
Filtered(i, j, value) ==
  IF j > Len(Schema[i].filters) THEN value
  ELSE Filtered(i, j + 1,
                CallFilter(Schema[i].filters[j].fn,
                           NewContext(PreValue(i).ptr, PreValue(i).ptr /\ PreValue(i).null,
                                      last.opts, Schema[i].filters[j].args, value,
                                      Schema[i].fieldKind, Now)).val)

\* Every filter of field i was invoked, once and in declared order.
AllFiltersRan(i) ==
  /\ Indices(FilterCalls(i)) = UpTo(Len(Schema[i].filters))
  /\ \A k \in 1..Len(FilterCalls(i)) : FilterCalls(i)[k].name = Schema[i].filters[k].name

\* C6 (P4): with stop-on-first-error disabled, when a selected field has a failing
\* validator and declares filters, every filter still executes, the field's
\* stored value after Validate is the filtered value, and the field is reported
\* invalid (*Age = 42 with min(50) and filter square ends as 1764, valid = false).
C6_FiltersAfterFailure ==
  (Returned /\ last.isPtr /\ ~last.opts.StopOnFirstError) =>
    \A i \in Evaluated :
      (Failing(i) # {} /\ Len(Schema[i].filters) > 0) =>
        /\ AllFiltersRan(i)
        /\ PostValue(i) = Filtered(i, 1, PreValue(i))
        /\ ErrorsOf(i) # {}
        /\ ~last.res.valid

\* The Agent's *Age was 42, failed min(50), and was squared to 1764.
C6_Witness ==
  /\ Returned /\ last.isPtr /\ ~last.opts.StopOnFirstError /\ ~last.res.valid
  /\ \E i \in Evaluated :
       /\ Failing(i) # {} /\ Len(FilterCalls(i)) = 1
       /\ PreValue(i) = PtrTo(IntV("int", 42))
       /\ PostValue(i) = PtrTo(IntV("int", 1764))

\* ------------------------------------------------------------------ C7

\* C7, as the specification states it: for every selected field that the
\* skip-if-zero-or-null flag does not skip, all of its filters are executed in
\* declared order on every Validate call, whatever the outcome of the field's
\* validators and whatever the options, stop-on-first-error included.
C7_FiltersUnconditional ==
  (Returned /\ last.isPtr) => \A i \in Evaluated : AllFiltersRan(i)

\* C7, as the code has it: the filters of such a field all run, in declared
\* order, unless stop-on-first-error is enabled and one of the field's validators
\* fails; then none of them runs and the field keeps its value.
C7_FiltersUnlessStopped ==
  (Returned /\ last.isPtr) =>
    \A i \in Evaluated :
      IF last.opts.StopOnFirstError /\ Failing(i) # {}
      THEN FilterCalls(i) = <<>> /\ PostValue(i) = PreValue(i)
      ELSE AllFiltersRan(i) /\ PostValue(i) = Filtered(i, 1, PreValue(i))

\* With the option on, a field with a failing validator and a filter that would
\* have changed it had no filter invoked and kept its value.
C7_Witness ==
  /\ Returned /\ last.isPtr /\ last.opts.StopOnFirstError
  /\ \E i \in Evaluated :
       /\ Failing(i) # {} /\ Len(Schema[i].filters) > 0
       /\ FilterCalls(i) = <<>>
       /\ PostValue(i) = PreValue(i)
       /\ Filtered(i, 1, PreValue(i)) # PreValue(i)

\* ------------------------------------------------------------------ C8

IsFailure(c) == c.rule = "validator" /\ ~c.ok

Failures(i) == SelectSeq(StepOf(i).calls, IsFailure)

RECURSIVE ErrorLists(_)
\* The errorLists of the fields the call applied, from trace entry k on.
ErrorLists(k) ==
  IF k > Len(last.steps) THEN <<>> ELSE last.steps[k].errorList \o ErrorLists(k + 1)

\* C8: message priority.  The message of the FieldError built for a failing
\* validator invocation is the field's message template when the field declares
\* one, else the message this same invocation set on its own fresh context
\* (never one left by an earlier validator of the field), else the default
\* "<label>: field validation failed", suffixed with the rule's name only when
\* validator names are exposed; the error's field is always the field's label.
C8_MessagePriority ==
  (Returned /\ last.isPtr) =>
    /\ last.res.FieldErrors = ErrorLists(1)
    /\ \A i \in Evaluated :
         /\ Len(StepOf(i).errorList) = Len(Failures(i))
         /\ \A k \in 1..Len(Failures(i)) :
              /\ StepOf(i).errorList[k].Field = Label(i)
              /\ StepOf(i).errorList[k].Message = ExpectedMessage(i, Failures(i)[k].index)
              /\ Failures(i)[k].msg = Verdict(i, Failures(i)[k].index).msg

\* One call produced an error with the field's template, an error with the
\* validator's own message, and, from a later validator of that same field that
\* set none, the default message with the rule's name.
C8_Witness ==
  /\ Returned /\ last.isPtr /\ last.opts.ExposeValidatorNames
  /\ \E i \in Evaluated :
       /\ "message" \in DOMAIN Declared(i).Tag
       /\ \E k \in ErrorsOf(i) : last.res.FieldErrors[k].Message = Declared(i).Tag.message
       /\ \E j \in Failing(i) : Verdict(i, j).msg # <<>>
                                /\ Verdict(i, j).msg # Declared(i).Tag.message
  /\ \E i \in Evaluated : \E j1 \in Failing(i) : \E j2 \in Failing(i) :
       /\ "message" \notin DOMAIN Declared(i).Tag
       /\ j1 < j2 /\ Verdict(i, j1).msg # <<>> /\ Verdict(i, j2).msg = <<>>
       /\ \E k \in ErrorsOf(i) : last.res.FieldErrors[k].Message = Verdict(i, j1).msg
       /\ \E k \in ErrorsOf(i) :
            last.res.FieldErrors[k].Message =
              Label(i) \o <<": field validation failed", " using function ">>
                       \o Schema[i].validators[j2].name

\* ------------------------------------------------------------------ C9

\* The rule names of field i's validator chain, and whether all of them are bound
\* to validators the package ships.
RuleNames(i) == {Schema[i].validators[j].name : j \in 1..Len(Schema[i].validators)}

BuiltinChain(i) ==
  \A j \in 1..Len(Schema[i].validators) :
    /\ Schema[i].validators[j].name \in DOMAIN BuiltinValidators
    /\ Schema[i].validators[j].fn = BuiltinValidators[Schema[i].validators[j].name]

IsNullField(i) == PreValue(i).ptr /\ PreValue(i).null

\* C9 (P2): for a nullable field whose validator chain does not contain required,
\* a null value yields zero FieldErrors for that field, whichever other built-in
\* rules (min, max, enum, email, alphanum, uuid1..uuid4, date rules) it declares.
C9_NullWithoutRequired ==
  (Returned /\ last.isPtr) =>
    \A i \in SelectedFields :
      (IsNullField(i) /\ BuiltinChain(i) /\ <<"required">> \notin RuleNames(i)) =>
        ErrorsOf(i) = {}

\* ------------------------------------------------------------------ C10

\* C10 (P3): a selected nullable field that declares required and whose value is
\* null yields exactly one FieldError for that field, unless stop-on-first-error
\* truncates on a different, earlier rule (and then too it is one); a field that
\* is no pointer never fails required.
C10_NullWithRequired ==
  (Returned /\ last.isPtr) =>
    \A i \in SelectedFields :
      /\ (IsNullField(i) /\ BuiltinChain(i) /\ <<"required">> \in RuleNames(i)) =>
           Cardinality(ErrorsOf(i)) = 1
      /\ ~PreValue(i).ptr =>
           \A k \in 1..Len(StepOf(i).calls) :
             StepOf(i).calls[k].fn = "IsRequired" => StepOf(i).calls[k].ok

\* ------------------------------------------------------------------ C11

\* C11: within one field of a Validate call no validator is invoked after a
\* filter of that field, and every validator of the field is given the value the
\* field held before any of its filters ran.
C11_ValidatorsBeforeFilters ==
  last.called =>
    \A k \in 1..Len(last.steps) :
      LET calls == last.steps[k].calls
          i == last.steps[k].index
      IN /\ \A a \in 1..Len(calls) : \A b \in 1..Len(calls) :
              (IsFilterCall(calls[a]) /\ IsValidatorCall(calls[b])) => b < a
         /\ \A b \in 1..Len(calls) :
              IsValidatorCall(calls[b]) => calls[b].value = PreValue(i)

\* A field whose validators all passed on the value it held and whose filters
\* then changed that value.
C11_Witness ==
  /\ Returned
  /\ \E i \in Evaluated :
       /\ Steps(i) # {}
       /\ Len(ValidatorCalls(i)) >= 1
       /\ Len(FilterCalls(i)) >= 1
       /\ PostValue(i) # PreValue(i)
       /\ \A b \in 1..Len(ValidatorCalls(i)) :
            ValidatorCalls(i)[b].ok /\ ValidatorCalls(i)[b].value = PreValue(i)

\* ------------------------------------------------------------------ C12

\* What the k-th filter invocation of field i returned for the value it was given.
FilterOutput(i, k) ==
  CallFilter(FilterCalls(i)[k].fn,
             NewContext(PreValue(i).ptr, PreValue(i).ptr /\ PreValue(i).null, last.opts,
                        Schema[i].filters[k].args, FilterCalls(i)[k].value,
                        Schema[i].fieldKind, Now)).val

\* C12: when the filters f1|...|fn of a field run, f1 is given the value the
\* field held, every later filter is given the value the filter before it wrote
\* back, the field ends up holding what fn returned, and the stored value keeps
\* the kind of the field (a pointer stays a pointer, an int an int).
C12_FilterChaining ==
  (Returned /\ last.isPtr) =>
    \A i \in Evaluated :
      (AllFiltersRan(i) /\ Len(FilterCalls(i)) >= 1) =>
        LET n == Len(FilterCalls(i))
        IN /\ FilterCalls(i)[1].value = PreValue(i)
           /\ \A k \in 2..n : FilterCalls(i)[k].value = FilterOutput(i, k - 1)
           /\ PostValue(i) = FilterOutput(i, n)
           /\ PostValue(i).ptr = PreValue(i).ptr
           /\ PostValue(i).k = PreValue(i).k

\* Height 1 under add_five|add_five: the second filter was given 6 and the field
\* holds 11.
C12_Witness ==
  /\ Returned /\ last.isPtr
  /\ \E i \in Evaluated :
       /\ AllFiltersRan(i) /\ Len(FilterCalls(i)) = 2
       /\ PreValue(i) = IntV("int", 1)
       /\ FilterCalls(i)[2].value = IntV("int", 6)
       /\ PostValue(i) = IntV("int", 11)

\* ------------------------------------------------------------------ C17

\* What a registration of fn under name makes of a partition of the registry.
Registered(functions, after, name, fn, panicked) ==
  IF name \in DOMAIN functions
  THEN IF globalOptions.NoPanicOnFunctionConflict
       THEN ~panicked /\ after = [functions EXCEPT ![name] = fn]
       ELSE panicked /\ after = functions
  ELSE /\ ~panicked
       /\ DOMAIN after = DOMAIN functions \cup {name}
       /\ after[name] = fn
       /\ \A other \in DOMAIN functions : after[other] = functions[other]

C17_Replaced ==
  /\ last.added.op = "AddFilter" /\ ~last.added.panicked
  /\ globalOptions.NoPanicOnFunctionConflict
  /\ filterFunctions = (<<"square">> :> "squareValue") @@ BuiltinFilters

\* A filter was added under a name that the validators hold and the filters did not.
C17_OtherPartition ==
  /\ last.added.op = "AddFilter" /\ ~last.added.panicked
  /\ ~globalOptions.NoPanicOnFunctionConflict
  /\ last.added.name \in DOMAIN validatorFunctions
  /\ filterFunctions[last.added.name] = last.added.fn

\* ------------------------------------------------------------------ C18

\* The call was given something that is no pointer to a struct.
NotAStructPointer == last.called /\ (~last.isPtr \/ Types[last.t].Kind # "struct")

\* What C18 asks of such a call: it returns a result with the structural error,
\* valid false and no FieldErrors, no rule has run, nothing was written.
StructuralErrorOnly ==
  /\ ~last.panicked
  /\ last.res.Error # NoError
  /\ ~last.res.valid
  /\ last.res.FieldErrors = <<>>
  /\ last.steps = <<>>
  /\ last.post = last.pre

\* C18: when the caller passes a non-pointer value or a pointer to something
\* that is no struct, Validate reports a structural error, valid is false,
\* fieldErrors is empty, no rule is run and nothing is written to the argument.
C18_StructuralError == NotAStructPointer => StructuralErrorOnly

\* The half of C18 that the code keeps: the argument that is no pointer.
C18_NonPointer == (last.called /\ ~last.isPtr) => StructuralErrorOnly

\* A call with a struct by value returned the structural error.
C18_NonPointerWitness == last.called /\ ~last.isPtr /\ StructuralErrorOnly

\* ------------------------------------------------------------------ C13

\* The cache key of the type the call was given.
KeyOf(call) == typeKey(Types[call.t])

\* C13: a Validate call walks the type and parses its tags only when the cache
\* holds nothing under the type's key, and stores the Schema when the walk
\* succeeds; once a Schema is stored, every later call for that key works with
\* the stored Schema without compiling, and no call on any type, and no other
\* operation, removes or replaces an entry of the cache.
C13_CompileOnce ==
  [][/\ \A k \in DOMAIN cache : k \in DOMAIN cache' /\ cache'[k] = cache[k]
     /\ (last'.called /\ last'.isPtr) =>
          IF KeyOf(last') \in DOMAIN cache
          THEN /\ ~last'.compiled
               /\ cache' = cache
               /\ last'.schema = cache[KeyOf(last')]
          ELSE IF last'.compiled
          THEN /\ DOMAIN cache' = DOMAIN cache \cup {KeyOf(last')}
               /\ cache'[KeyOf(last')] = last'.schema
          ELSE last'.panicked /\ cache' = cache
     /\ ~(last'.called /\ last'.isPtr) => cache' = cache]_vars

\* With the Schemas of two types in the cache, a call returned that worked with
\* a cached Schema of several FieldSpecs and compiled nothing.
C13_Witness ==
  /\ Returned /\ last.isPtr /\ ~last.compiled
  /\ Cardinality(DOMAIN cache) = 2
  /\ last.schema = cache[KeyOf(last)]
  /\ Len(last.schema) >= 3
  /\ Len(last.steps) >= 3

\* ------------------------------------------------------------------ C14

\* What a Schema says of the declarations it was compiled from: per FieldSpec the
\* field name, its label, its kind and the names and arguments of its rules.
RuleShape(rules) == [k \in 1..Len(rules) |-> [name |-> rules[k].name, args |-> rules[k].args]]

Shape(schema) ==
  [i \in 1..Len(schema) |->
     [fieldName |-> schema[i].fieldName, fieldLabel |-> schema[i].fieldLabel,
      fieldKind |-> schema[i].fieldKind, triggers |-> schema[i].triggers,
      flags |-> schema[i].flags, validators |-> RuleShape(schema[i].validators),
      filters |-> RuleShape(schema[i].filters)]]

\* The Schema that the declarations of type t compile to, with the registry as
\* it is (names are never removed from it).
OwnSchema(t) == walkStack(<<t>>, <<>>, globalOptions, validatorFunctions, filterFunctions).contexts

\* The call was given a pointer to a struct and obtained a Schema for it.
ObtainedSchema ==
  /\ last.called /\ last.isPtr /\ Types[last.t].Kind = "struct"
  /\ KeyOf(last) \in DOMAIN cache

\* C14: whatever struct types were validated before, named alike or unnamed,
\* the Schema a Validate call uses for a record of type T is the one compiled
\* from T's own field declarations.
C14_OwnSchema == ObtainedSchema => Shape(last.schema) = Shape(OwnSchema(last.t))

\* The property for the types whose key no other type of the application has.
C14_UniqueKeys ==
  (ObtainedSchema /\ \A t \in Apps[app].types : KeyOf([t |-> t]) = KeyOf(last) => t = last.t)
    => Shape(last.schema) = Shape(OwnSchema(last.t))

\* A call on TestCustomFunctions' MyStruct returned after using a Schema without
\* the filter upper.
C14_Collision ==
  /\ Returned /\ last.isPtr /\ last.t = "TestCustomFunctions.MyStruct"
  /\ Len(last.schema) = 2
  /\ RuleShape(last.schema[1].filters) = <<[name |-> <<"trim">>, args |-> <<>>]>>

\* ------------------------------------------------------------------ C16

\* The names a rule tag declares.
DeclaredNames(tag) ==
  {extractFunctionInformation(Split(tag, "|")[k]).name : k \in 1..Len(Split(tag, "|"))}

\* Whether the exported field names, in the tag of that name, a function that the
\* given partition of the registry does not hold.
NamesUnknown(field, tagName, functions) ==
  /\ field.Name[1] \notin Lower
  /\ tagName \in DOMAIN field.Tag
  /\ \E name \in DeclaredNames(field.Tag[tagName]) : name \notin DOMAIN functions

\* Some exported field of type t, at whatever depth, names a validator or a
\* filter that is not registered.
UnknownNames(t) ==
  \E path \in LeafPaths(t) :
    \/ NamesUnknown(FieldAt(t, path), "validator", validatorFunctions)
    \/ NamesUnknown(FieldAt(t, path), "filter", filterFunctions)

\* C16: when an exported tagged field of the record type, at any nesting depth,
\* names a validator or filter the registry does not hold, a Validate call that
\* finds no Schema for the type in the cache panics while compiling: no validator
\* or filter has run, no field of the record has changed, nothing is stored in
\* the cache and no FieldError is reported.
C16_EagerBinding ==
  [][(/\ last'.called /\ last'.isPtr
      /\ Types[last'.t].Kind = "struct"
      /\ KeyOf(last') \notin DOMAIN cache
      /\ UnknownNames(last'.t)) =>
        /\ last'.panicked
        /\ last'.steps = <<>>
        /\ rec'.vals = rec.vals
        /\ last'.res.FieldErrors = <<>>
        /\ cache' = cache]_vars

\* The Order's nested Item names range before the application registered it: the
\* call panicked with the Title untrimmed and no rule run.
C16_Witness ==
  /\ last.called /\ last.isPtr /\ last.panicked /\ last.t = "Order"
  /\ UnknownNames("Order")
  /\ KeyOf(last) \notin DOMAIN cache
  /\ last.steps = <<>>
  /\ rec.vals[<<<<"T", "itle">>>>] = StrV(<<" ", "t">>)

\* After the registration the same type compiles and its rules run.
C16_Registered ==
  /\ Returned /\ last.isPtr /\ last.t = "Order" /\ last.compiled
  /\ ~UnknownNames("Order")
  /\ Len(last.steps) = 2

\* ------------------------------------------------------------------ C19

\* Whether a field declares a validator or a filter, and the exported fields of
\* type t, at whatever depth, that are no structs and declare one.
Tagged(field) == "validator" \in DOMAIN field.Tag \/ "filter" \in DOMAIN field.Tag

TaggedLeaves(t) ==
  {path \in LeafPaths(t) :
     FieldAt(t, path).Name[1] \notin Lower /\ Tagged(FieldAt(t, path))}

\* The field names of the leaves of type t.
LeafNames(t) == {path[Len(path)] : path \in LeafPaths(t)}

\* C19: the Schema compiled for a struct type holds, for every field name,
\* as many FieldSpecs as the type has exported non-struct fields of that name, at
\* any nesting depth, that declare a validator or a filter: one per such field,
\* and none for a field that declares neither or is not exported.
C19_Membership ==
  (last.called /\ last.compiled) =>
    /\ Len(last.schema) = Cardinality(TaggedLeaves(last.t))
    /\ \A name \in LeafNames(last.t) :
         Cardinality({i \in 1..Len(last.schema) : last.schema[i].fieldName = name})
           = Cardinality({path \in TaggedLeaves(last.t) : path[Len(path)] = name})

\* The Account was compiled: five FieldSpecs for its eight fields, two of them
\* for fields of sub-records, one of those two levels down.
C19_Witness ==
  /\ last.called /\ last.compiled /\ last.t = "Account"
  /\ Cardinality(LeafPaths("Account")) = 8
  /\ Len(last.schema) = 5
  /\ \E i \in 1..5 : last.schema[i].fieldName = <<"A", "ge">>
  /\ \E i \in 1..5 : last.schema[i].fieldName = <<"N", "ick">>
  /\ \A i \in 1..5 : last.schema[i].fieldName \notin {<<"p", "in">>, <<"M", "emo">>, <<"T", "ag">>}

\* ------------------------------------------------------------------ C20

\* The struct types met at or below type t, and the names of the tagged leaves
\* of a type that are its own fields and that lie in its sub-records.
RECURSIVE RecordTypes(_)
RecordTypes(t) ==
  {t} \cup UNION {RecordTypes(Types[t].Fields[i].Type.Struct) :
                    i \in {j \in 1..Len(Types[t].Fields) :
                             Types[t].Fields[j].Type.Kind = "struct"}}

DirectLeaves(r) == {path \in TaggedLeaves(r) : Len(path) = 1}

NestedLeaves(r) == {path \in TaggedLeaves(r) : Len(path) > 1}

\* Where the field sits among the declarations of r, and where the FieldSpec of
\* that name sits in the Schema (the types here use a field name once).
DeclaredAt(r, name) == CHOOSE i \in 1..Len(Types[r].Fields) : Types[r].Fields[i].Name = name

SchemaAt(name) == CHOOSE i \in 1..Len(last.schema) : last.schema[i].fieldName = name

\* C20: in the Schema compiled for a type, for the type itself and for every
\* sub-record in it, the FieldSpecs of the record's own fields stand in the order
\* of their declaration and all of them stand before the FieldSpecs of the fields
\* of the record's sub-records, wherever among the fields the sub-records are
\* declared.
C20_Order ==
  (last.called /\ last.compiled) =>
    \A r \in RecordTypes(last.t) :
      /\ \A f \in DirectLeaves(r) : \A g \in DirectLeaves(r) :
           DeclaredAt(r, f[1]) < DeclaredAt(r, g[1]) => SchemaAt(f[1]) < SchemaAt(g[1])
      /\ \A f \in DirectLeaves(r) : \A h \in NestedLeaves(r) :
           SchemaAt(f[1]) < SchemaAt(h[Len(h)])

\* The Account, with a sub-record declared before its fields and one between
\* them, compiled to Id, Cap, then the fields of the sub-records.
C20_Witness ==
  /\ last.called /\ last.compiled /\ last.t = "Account"
  /\ [i \in 1..Len(last.schema) |-> last.schema[i].fieldName]
       = << <<"I", "d">>, <<"C", "ap">>, <<"L", "ow">>, <<"A", "ge">>, <<"N", "ick">> >>

\* ------------------------------------------------------------------ C15

\* The Schema a walk of type t by one caller alone ends with.
Compile(t) == walkStack(<<t>>, <<>>, globalOptions, validatorFunctions, filterFunctions).contexts

\* The callers that hold a Schema: they had a hit, or they finished their walk.
Holding == {g \in 1..NumCallers : callers[g].pc \in {"run", "done"}}

\* C15: with several callers validating not yet cached types at the same time,
\* every caller that misses walks the type itself, all walks of a type end with
\* the same Schema, field for field, a store replaces the entry with the storing
\* caller's Schema, and whatever the cache holds under a type's key at any moment
\* is the complete Schema of that type, so a caller that reads the cache gets
\* that or nothing.
C15_ConcurrentCompile ==
  /\ [](/\ \A key \in DOMAIN cache :
             \E t \in Apps[app].types : typeKey(Types[t]) = key /\ cache[key] = Compile(t)
        /\ \A g \in Holding : callers[g].contexts = Compile(callers[g].t)
        /\ \A g \in Holding : \A h \in Holding :
             callers[g].t = callers[h].t => callers[g].contexts = callers[h].contexts)
  /\ [][\A g \in 1..NumCallers :
          /\ (callers[g].pc = "get" /\ callers'[g].pc = "walk") =>
               /\ typeKey(Types[callers[g].t]) \notin DOMAIN cache
               /\ callers'[g].contexts = <<>>
               /\ cache' = cache
          /\ (callers[g].pc = "get" /\ callers'[g].pc = "run") =>
               callers'[g].contexts = cache[typeKey(Types[callers[g].t])]
          /\ (~callers[g].stored /\ callers'[g].stored) =>
               /\ cache'[typeKey(Types[callers[g].t])] = callers[g].contexts
               /\ \A key \in DOMAIN cache \ {typeKey(Types[callers[g].t])} :
                    cache'[key] = cache[key]]_vars

\* Two callers missed on the same type of nested records, both walked it and
\* both stored; a caller is still walking another type with part of its Schema
\* built while the cache holds the first.
C15_Witness ==
  /\ \E g \in 1..NumCallers : \E h \in 1..NumCallers :
       /\ g # h
       /\ callers[g].t = callers[h].t
       /\ callers[g].stored /\ callers[h].stored
       /\ Len(callers[g].contexts) >= 3
       /\ callers[g].pc = "done" /\ callers[h].pc = "done"
  /\ Cardinality(DOMAIN cache) = 1

\* A caller holds part of a Schema in the middle of its walk while the entry of
\* that type is in the cache already.
C15_Partial ==
  \E g \in 1..NumCallers :
    /\ callers[g].pc = "walk"
    /\ Len(callers[g].stack) > 0
    /\ Len(callers[g].contexts) > 0
    /\ typeKey(Types[callers[g].t]) \in DOMAIN cache

\* ------------------------------------------------------------------ C21

\* C21: a declaration that follows the grammar is split on | into its tokens in
\* order, and each token gives its name and its arguments: a bare name and
\* name() give the name and no arguments, name(a,b) gives the name and the
\* arguments between the commas as they are written, in order.
C21_Parsing ==
  (parsing.done /\ parsing.source # <<>>) =>
    /\ ~parsing.panic
    /\ parsing.rules = [k \in 1..Len(parsing.source) |->
                          [name |-> parsing.source[k].name, args |-> parsing.source[k].args]]

\* The declaration  aa()|a(a,)  was parsed into aa without arguments and a with
\* the arguments a and the empty string.
C21_Witness ==
  /\ parsing.done /\ ~parsing.panic
  /\ parsing.decl = <<"a", "a", "(", ")", "|", "a", "(", "a", ",", ")">>
  /\ parsing.rules = <<[name |-> <<"a", "a">>, args |-> <<>>],
                       [name |-> <<"a">>, args |-> <<<<"a">>, <<>>>>]>>

\* ------------------------------------------------------------------ C22

\* Whether the parentheses of a token are balanced: none closes what was not
\* opened and none stays open.
RECURSIVE Depths(_, _)
Depths(token, depth) ==
  IF Len(token) = 0 THEN <<depth>>
  ELSE <<depth>> \o Depths(Tail(token),
                           depth + (IF token[1] = "(" THEN 1 ELSE IF token[1] = ")" THEN -1 ELSE 0))

Balanced(token) ==
  /\ \A k \in 1..Len(Depths(token, 0)) : Depths(token, 0)[k] >= 0
  /\ Depths(token, 0)[Len(Depths(token, 0))] = 0

\* The tokens of a declaration, cut at every | .
RECURSIVE TokensOf(_, _)
TokensOf(text, token) ==
  IF Len(text) = 0 THEN {token}
  ELSE IF text[1] = "|" THEN {token} \cup TokensOf(Tail(text), <<>>)
  ELSE TokensOf(Tail(text), Append(token, text[1]))

Malformed(text) == \E token \in TokensOf(text, <<>>) : ~Balanced(token)

\* C22: a declaration with a token whose parentheses are unbalanced makes the
\* compilation of the field fail; no such token is accepted.
C22_MalformedRejected == (parsing.done /\ Malformed(parsing.decl)) => parsing.panic

\* The unbalanced tokens that the code does reject: one parenthesis alone.
C22_LoneParenthesis ==
  (/\ parsing.done
   /\ \E token \in TokensOf(parsing.decl, <<>>) :
        Cardinality({k \in 1..Len(token) : token[k] \in {"(", ")"}}) = 1) => parsing.panic

\* a(a)) was accepted as a with the argument a) .
C22_Accepted ==
  /\ parsing.done /\ ~parsing.panic
  /\ parsing.decl = <<"a", "(", "a", ")", ")">>
  /\ parsing.rules = <<[name |-> <<"a">>, args |-> <<<<"a", ")">>>>]>>

\* ------------------------------------------------------------------ C23

\* Whether FieldSpec i carries the allow_zero flag, and the FieldSpec without it.
AllowsZero(i) == \E k \in 1..Len(Schema[i].flags) : Schema[i].flags[k] = <<"allow_zero">>

Unflagged(i) == [Schema[i] EXCEPT !.flags = <<>>]

\* What apply does for FieldSpec i without the flag on the record as the call
\* found it.
WithoutFlag(i) == apply(Unflagged(i), last.t, last.pre, last.opts, Now)

\* C23: a selected field with the allow_zero flag whose value is the zero value
\* of its type, a null pointer or a pointer to the zero value of the element
\* type has no validator and no filter run, contributes no FieldError, required
\* or not, and keeps its value; when its value is anything else the call does
\* for the field exactly what it does without the flag.
C23_AllowZero ==
  (Returned /\ last.isPtr) =>
    \A i \in SelectedFields :
      AllowsZero(i) =>
        IF \/ PreValue(i).ptr /\ PreValue(i).null
           \/ [PreValue(i) EXCEPT !.ptr = FALSE] = Zero(Schema[i].fieldKind)
        THEN /\ StepOf(i).calls = <<>>
             /\ ErrorsOf(i) = {}
             /\ PostValue(i) = PreValue(i)
        ELSE /\ StepOf(i).calls = WithoutFlag(i).calls
             /\ StepOf(i).errorList = WithoutFlag(i).errorList
             /\ PostValue(i) = WithoutFlag(i).vals[<<Schema[i].fieldName>>]

\* A record with a null Count that declares required, an empty Name and a Step
\* of 0 came back valid and unchanged although every field was selected.
C23_Witness ==
  /\ Returned /\ last.isPtr /\ last.t = "Flagged" /\ last.res.valid
  /\ Cardinality(SelectedFields) = 3
  /\ last.pre[<<<<"C", "ount">>>>] = NilPtr("int")
  /\ last.pre[<<<<"N", "ame">>>>] = StrV(<<>>)
  /\ last.pre[<<<<"S", "tep">>>>] = IntV("int", 0)
  /\ last.post = last.pre
  /\ last.steps # <<>>

\* A pointer to 0 was passed over, and a pointer to 3 was validated and squared.
C23_PointerToZero ==
  /\ Returned /\ last.isPtr /\ last.t = "Flagged"
  /\ last.pre[<<<<"C", "ount">>>>] = PtrTo(IntV("int", 0))
  /\ last.post[<<<<"C", "ount">>>>] = PtrTo(IntV("int", 0))
  /\ \A k \in 1..Len(last.res.FieldErrors) : last.res.FieldErrors[k].Field # <<"C", "ount">>

C23_NonZero ==
  /\ Returned /\ last.isPtr /\ last.t = "Flagged"
  /\ last.pre[<<<<"C", "ount">>>>] = PtrTo(IntV("int", 3))
  /\ last.post[<<<<"C", "ount">>>>] = PtrTo(IntV("int", 9))
  /\ \E k \in 1..Len(last.res.FieldErrors) : last.res.FieldErrors[k].Field = <<"C", "ount">>

\* ------------------------------------------------------------------ C24

\* The selected fields of the call that hold a null pointer and have filters.
NullFiltered ==
  {i \in SelectedFields : PreValue(i).ptr /\ PreValue(i).null /\ Len(Schema[i].filters) > 0}

\* C24: a call whose record has a selected null pointer field with a filter
\* chain, the built-in trim in particular, completes without a fatal error and
\* leaves the field null.
C24_NullStaysNull ==
  (last.called /\ last.isPtr /\ last.schema # <<>>) =>
    \A i \in NullFiltered :
      Skipped(i) \/ (~last.panicked /\ PostValue(i) = PreValue(i))

\* What the code does: trim answers a null pointer with a string that is no
\* pointer, storing it is refused, and the call ends in a fatal error with the
\* field still null.
C24_TrimOnNullPanics ==
  (last.called /\ last.isPtr /\ last.t = "Note" /\ last.schema # <<>>) =>
    \A i \in NullFiltered :
      Schema[i].filters[1].fn = "Trim" => (last.panicked /\ rec.vals[<<Schema[i].fieldName>>].null)

C24_NullTitle ==
  /\ last.called /\ last.isPtr /\ last.t = "Note" /\ last.schema # <<>>
  /\ NullFiltered # {}
  /\ last.panicked

\* ------------------------------------------------------------------ C25

\* The filters of field i from the k-th on, applied one after the other to v.
RECURSIVE Chain(_, _, _)
Chain(i, k, v) ==
  IF k > Len(Schema[i].filters) THEN v
  ELSE Chain(i, k + 1,
             CallFilter(Schema[i].filters[k].fn,
                        NewContext(v.ptr, v.ptr /\ v.null, last.opts,
                                   Schema[i].filters[k].args, v, Schema[i].fieldKind,
                                   Now)).val)

\* The fields of the call whose rules ran through: selected, not passed over for
\* a zero value, reached, and not left at a failure under StopOnFirstError.
RanThrough ==
  {i \in Evaluated : Steps(i) # {} /\ ~(last.opts.StopOnFirstError /\ Failing(i) # {})}

\* The call gave every validator the value the field held when the call began and
\* the verdict is the one of that value; it ran every filter once, and the field
\* holds the chain applied once to that value.
AppliedOnce ==
  \A i \in RanThrough :
    /\ \A k \in 1..Len(ValidatorCalls(i)) :
         /\ ValidatorCalls(i)[k].value = PreValue(i)
         /\ ValidatorCalls(i)[k].ok = Verdict(i, ValidatorCalls(i)[k].index).ok
    /\ Indices(FilterCalls(i)) = UpTo(Len(Schema[i].filters))
    /\ PostValue(i) = Chain(i, 1, PreValue(i))

\* C25: Validate keeps no memory of the records it has seen.  Every call works
\* on the values the record holds when it is made, whatever earlier calls wrote
\* there: validators judge the current value and the filter chain of every field
\* whose rules run is applied once more to it, so that k calls leave the k-fold
\* application.
C25_NoMemory ==
  [][(rec'.calls = rec.calls + 1) =>
       /\ last'.called
       /\ last'.pre = rec.vals
       /\ (~last'.panicked /\ last'.isPtr) => (rec'.vals = last'.post /\ AppliedOnce')]_vars

\* A Person after two calls: Age went 2, 7, 12 and Height 1, 11, 21.
C25_Witness ==
  /\ rec.type = "Person" /\ rec.calls = 2
  /\ Returned /\ last.isPtr
  /\ last.pre[<<<<"A", "ge">>>>] = IntV("int", 7)
  /\ rec.vals[<<<<"A", "ge">>>>] = IntV("int", 12)
  /\ last.pre[<<<<"H", "eight">>>>] = IntV("int", 11)
  /\ rec.vals[<<<<"H", "eight">>>>] = IntV("int", 21)

\* An Agent whose Age of 42 failed min(50) in the first call and, squared by that
\* call, passed it in the second.
C25_Reevaluated ==
  /\ rec.type = "Agent" /\ rec.calls = 2
  /\ Returned /\ last.isPtr
  /\ last.pre[<<<<"A", "ge">>>>] = PtrTo(IntV("int", 1764))
  /\ \A k \in 1..Len(last.res.FieldErrors) : last.res.FieldErrors[k].Field # <<"Agent", " ", "age">>

\* ------------------------------------------------------------------ C26

\* The rule of FieldSpec fc that call c invoked.
RuleOf(fc, c) == IF IsValidatorCall(c) THEN fc.validators[c.index] ELSE fc.filters[c.index]

\* Every function the call invoked is the one its Schema binds to the rule.
InvokesBound(call) ==
  \A s \in 1..Len(call.steps) : \A k \in 1..Len(call.steps[s].calls) :
    call.steps[s].calls[k].fn = RuleOf(call.schema[call.steps[s].index], call.steps[s].calls[k]).fn

\* Every rule of the Schema is bound to the function the registries hold under
\* its name.
BoundTo(schema, validators, filters) ==
  \A i \in 1..Len(schema) :
    /\ \A j \in 1..Len(schema[i].validators) :
         /\ schema[i].validators[j].name \in DOMAIN validators
         /\ schema[i].validators[j].fn = validators[schema[i].validators[j].name]
    /\ \A j \in 1..Len(schema[i].filters) :
         /\ schema[i].filters[j].name \in DOMAIN filters
         /\ schema[i].filters[j].fn = filters[schema[i].filters[j].name]

\* C26: rule names are resolved when a type is compiled and never again.  A
\* registration leaves every cached Schema as it is; a call that finds the Schema
\* of its type in the cache invokes the functions bound in it, whatever the
\* registries hold by then; a call that compiles binds every rule to the function
\* registered under its name at that moment.
C26_BoundAtCompile ==
  [][/\ (last'.added.op # "") => cache' = cache
     /\ (last'.called /\ last'.isPtr /\ Types[last'.t].Kind = "struct") =>
          /\ InvokesBound(last')
          /\ IF KeyOf(last') \in DOMAIN cache
             THEN last'.schema = cache[KeyOf(last')]
             ELSE last'.compiled =>
                    BoundTo(last'.schema, validatorFunctions, filterFunctions)]_vars

\* The Agent was compiled with square bound to squarePointer; square has been
\* replaced by squareValue since, and a call on the Agent still squared Age
\* through squarePointer.
C26_Witness ==
  /\ Returned /\ last.isPtr /\ last.t = "Agent" /\ ~last.compiled
  /\ filterFunctions[<<"square">>] = "squareValue"
  /\ \E s \in 1..Len(last.steps) : \E k \in 1..Len(last.steps[s].calls) :
       /\ last.steps[s].calls[k].name = <<"square">>
       /\ last.steps[s].calls[k].fn = "squarePointer"
  /\ last.post[<<<<"A", "ge">>>>] = PtrTo(IntV("int", 1764))

\* An Agent first validated after the replacement was compiled with squareValue.
C26_CompiledAfter ==
  /\ last.called /\ last.isPtr /\ last.t = "Agent" /\ last.compiled
  /\ \E i \in 1..Len(last.schema) : \E j \in 1..Len(last.schema[i].filters) :
       last.schema[i].filters[j].fn = "squareValue"

\* ------------------------------------------------------------------ C27

\* The size min and max compare: the number, or the length of the text.
SizeOf(v) == IF v.k = "string" THEN Len(v.s) ELSE v.n

\* C27: for a field of any integer kind, signed or unsigned, that is not null,
\* max(n) passes exactly when the value is at most n and min(n) exactly when it
\* is at least n; for a string it is the length that is compared.
C27_MinMax ==
  (Returned /\ last.isPtr) =>
    \A s \in 1..Len(last.steps) : \A k \in 1..Len(last.steps[s].calls) :
      LET c == last.steps[s].calls[k]
          n == ParseInt(Schema[last.steps[s].index].validators[c.index].args[1]).n
      IN (IsValidatorCall(c) /\ ~(c.value.ptr /\ c.value.null) /\ c.value.k \in MinMaxKinds) =>
           /\ c.fn = "IsMax" => (c.ok <=> SizeOf(c.value) <= n)
           /\ c.fn = "IsMin" => (c.ok <=> SizeOf(c.value) >= n)

\* What the code does: the statement holds for min and for max on every kind but
\* int8 and uint8, whose values max rejects whatever they are.
C27_EightBitMax ==
  (Returned /\ last.isPtr) =>
    \A s \in 1..Len(last.steps) : \A k \in 1..Len(last.steps[s].calls) :
      LET c == last.steps[s].calls[k]
          n == ParseInt(Schema[last.steps[s].index].validators[c.index].args[1]).n
      IN (IsValidatorCall(c) /\ ~(c.value.ptr /\ c.value.null) /\ c.value.k \in MinMaxKinds) =>
           /\ c.fn = "IsMax" =>
                IF c.value.k \in {"int8", "uint8"} THEN ~c.ok
                ELSE c.ok <=> SizeOf(c.value) <= n
           /\ c.fn = "IsMin" => (c.ok <=> SizeOf(c.value) >= n)

\* An int8 of 2 was rejected by max(3).
C27_Int8Rejected ==
  /\ Returned /\ last.isPtr /\ last.t = "Signed"
  /\ \E s \in 1..Len(last.steps) : \E k \in 1..Len(last.steps[s].calls) :
       /\ last.steps[s].calls[k].fn = "IsMax"
       /\ last.steps[s].calls[k].value = IntV("int8", 2)
       /\ ~last.steps[s].calls[k].ok

\* ------------------------------------------------------------------ C28

\* The invocations of the call on a text that is a date in the default layout.
DateCalls ==
  {c \in UNION {{last.steps[s].calls[k] : k \in 1..Len(last.steps[s].calls)} :
                  s \in 1..Len(last.steps)} :
     /\ IsValidatorCall(c) /\ ~c.value.ptr /\ c.value.k = "string"
     /\ ~TimeParse(DefaultLayout, c.value.s).err}

DateOf(c) == TimeParse(DefaultLayout, c.value.s)

\* C28: on a well-formed date that is not null, today passes exactly when the
\* date is the current date, before_today exactly when the date lies before
\* the current instant and after_today exactly when it lies after it.
C28_Today ==
  (Returned /\ last.isPtr) =>
    \A c \in DateCalls :
      /\ c.fn = "IsToday" => (c.ok <=> DateOf(c).ord = Now.ord)
      /\ c.fn = "IsBeforeToday" => (c.ok <=> Before(DateOf(c), Now))
      /\ c.fn = "IsAfterToday" => (c.ok <=> After(DateOf(c), Now))

\* What the code does: before_today and after_today compare with the current
\* instant as stated, and today passes for no date at all.
C28_TodayNeverPasses ==
  (Returned /\ last.isPtr) =>
    \A c \in DateCalls :
      /\ c.fn = "IsToday" => ~c.ok
      /\ c.fn = "IsBeforeToday" => (c.ok <=> Before(DateOf(c), Now))
      /\ c.fn = "IsAfterToday" => (c.ok <=> After(DateOf(c), Now))

\* The day of the run was rejected by today, and accepted by before_today.
C28_TodayRejected ==
  /\ Returned /\ last.isPtr /\ last.t = "Event"
  /\ \E c \in DateCalls : c.fn = "IsToday" /\ c.value = StrV(DayText("5")) /\ ~c.ok
  /\ \E c \in DateCalls : c.fn = "IsBeforeToday" /\ c.value = StrV(DayText("5")) /\ c.ok

\* ------------------------------------------------------------------ C29

\* The storage locations the FieldSpecs of a Schema were compiled from, in the
\* order of the Schema: the walk pops the record last pushed, takes its own
\* tagged fields in declared order and pushes its sub-records.
RECURSIVE SourcePaths(_)
SourcePaths(stack) ==
  IF Len(stack) = 0 THEN <<>>
  ELSE LET top    == stack[Len(stack)]
           fields == Types[top.t].Fields
           IsOwn(i) == /\ fields[i].Type.Kind # "struct"
                       /\ fields[i].Name[1] \notin Lower
                       /\ Tagged(fields[i])
           IsSub(i) == fields[i].Type.Kind = "struct"
           PathOf(i) == top.path \o <<fields[i].Name>>
           SubOf(i)  == [path |-> PathOf(i), t |-> fields[i].Type.Struct]
           own  == SelectSeq([i \in 1..Len(fields) |-> i], IsOwn)
           subs == SelectSeq([i \in 1..Len(fields) |-> i], IsSub)
       IN [k \in 1..Len(own) |-> PathOf(own[k])] \o
          SourcePaths(Sub(stack, 1, Len(stack) - 1) \o [k \in 1..Len(subs) |-> SubOf(subs[k])])

SourceOf(i) == SourcePaths(<<[path |-> <<>>, t |-> last.t]>>)[i]

\* The types whose rules run into no fatal error of their own.
Houses == {"Lodger", "Tenant", "Shadow"}

\* C29: every FieldSpec is evaluated against the storage of the field it was
\* compiled from.  Its validators are given the value stored there, a field of a
\* sub-record is reached in the sub-record, embedded or named, whatever fields of
\* the same name the outer record has, and the call ends in no fatal error.
C29_LiveValue ==
  (last.called /\ last.isPtr /\ last.t \in Houses) =>
    /\ ~last.panicked
    /\ \A s \in 1..Len(last.steps) : \A k \in 1..Len(last.steps[s].calls) :
         last.steps[s].calls[k].value = last.pre[SourceOf(last.steps[s].index)]
    /\ \A i \in 1..Len(Schema) :
         (Steps(i) # {} /\ ~last.opts.StopOnFirstError) =>
           (ErrorsOf(i) # {} <=> \E j \in 1..Len(Schema[i].validators) :
              ~CallValidator(Schema[i].validators[j].fn,
                             NewContext(FALSE, FALSE, last.opts, Schema[i].validators[j].args,
                                        last.pre[SourceOf(i)], Schema[i].fieldKind, Now)).ok)

\* What the code does: that holds for a record whose sub-record is embedded and
\* whose field names differ, like the Lodger.
C29_EmbeddedDistinct ==
  (last.called /\ last.isPtr /\ last.t = "Lodger") =>
    /\ ~last.panicked
    /\ \A s \in 1..Len(last.steps) : \A k \in 1..Len(last.steps[s].calls) :
         last.steps[s].calls[k].value = last.pre[SourceOf(last.steps[s].index)]

\* A Tenant, whose Inner is a named field: the call ended in a fatal error.
C29_NamedPanics ==
  /\ last.called /\ last.isPtr /\ last.t = "Tenant" /\ last.panicked

\* A Shadow with Inner.Age = 20 and Age = 3: min(18) was given the 3 of the outer
\* record and reported it.
C29_Shadowed ==
  /\ Returned /\ last.isPtr /\ last.t = "Shadow"
  /\ last.pre[<<<<"I", "nner">>, <<"A", "ge">>>>] = IntV("int", 20)
  /\ last.pre[<<<<"A", "ge">>>>] = IntV("int", 3)
  /\ \E s \in 1..Len(last.steps) : \E k \in 1..Len(last.steps[s].calls) :
       /\ last.steps[s].calls[k].fn = "IsMin"
       /\ last.steps[s].calls[k].value = IntV("int", 3)
  /\ ~last.res.valid

\* The Lodger with Inner.Age = 10 and Bar = 15: one FieldError, for Age.
C29_Lodger ==
  /\ Returned /\ last.isPtr /\ last.t = "Lodger"
  /\ last.pre[<<<<"I", "nner">>, <<"A", "ge">>>>] = IntV("int", 10)
  /\ Len(last.res.FieldErrors) = 1
  /\ last.res.FieldErrors[1].Field = <<"A", "ge">>

\* ------------------------------------------------------------------ C30

\* The declaration of the field a FieldSpec of the call's type was compiled from
\* (the Form uses every field name once).
DeclaredOf(call, fc) ==
  LET fields == Types[call.t].Fields
  IN fields[CHOOSE i \in 1..Len(fields) : fields[i].Name = fc.fieldName]

\* A FieldSpec reads every tag channel under the name the options give it.
ReadsChannels(call, fc, opts) ==
  LET tag == DeclaredOf(call, fc).Tag
      Has(name) == name \in DOMAIN tag
  IN /\ Len(fc.validators) =
          (IF Has(opts.ValidatorTagName) THEN Len(Split(tag[opts.ValidatorTagName], "|")) ELSE 0)
     /\ Len(fc.filters) =
          (IF Has(opts.FilterTagName) THEN Len(Split(tag[opts.FilterTagName], "|")) ELSE 0)
     /\ fc.triggers = (IF Has(opts.TriggerTagName) THEN Split(tag[opts.TriggerTagName], ",")
                       ELSE <<<<"all">>>>)
     /\ fc.hasMessagTemplate = Has(opts.MessageTagName)
     /\ fc.fieldLabel = (IF Has(opts.LabelTagName) THEN tag[opts.LabelTagName]
                         ELSE fc.fieldName)
     /\ (fc.flags = <<>>) = ~Has(opts.FlagTagName)

\* The failing validator invocations of the call.
FailedCalls ==
  UNION {{[step |-> s, call |-> k] :
            k \in {j \in 1..Len(last.steps[s].calls) :
                     IsValidatorCall(last.steps[s].calls[j]) /\ ~last.steps[s].calls[j].ok}} :
         s \in 1..Len(last.steps)}

\* The options of the call decide how it runs: under StopOnFirstError a field is
\* left at its first failing validator and reports one FieldError at most, and
\* otherwise the call reports one for every failing invocation; the
\* default message names the rule exactly when validator names are exposed.
ExecutionOptions ==
  /\ last.opts.StopOnFirstError =>
       /\ \A s \in 1..Len(last.steps) : Len(last.steps[s].errorList) <= 1
       /\ \A f \in FailedCalls : f.call = Len(last.steps[f.step].calls)
  /\ ~last.opts.StopOnFirstError => Len(last.res.FieldErrors) = Cardinality(FailedCalls)
  /\ \A f \in FailedCalls :
       LET fc == Schema[last.steps[f.step].index]
           c  == last.steps[f.step].calls[f.call]
       IN (~fc.hasMessagTemplate /\ c.msg = <<>>) =>
            \E e \in 1..Len(last.res.FieldErrors) :
              last.res.FieldErrors[e] =
                [Field |-> fc.fieldLabel,
                 Message |-> fc.fieldLabel \o <<": field validation failed">> \o
                             (IF last.opts.ExposeValidatorNames
                              THEN <<" using function ">> \o c.name ELSE <<>>)]

\* C30: the Schema of a type is fixed by the options in force when the type is
\* first validated.  A call that compiles reads every tag channel under the name
\* the options give it at that moment; a call that finds the Schema in the cache
\* works with it whatever the channel names are by then; and every call runs
\* under the StopOnFirstError and ExposeValidatorNames in force when it is made.
C30_SchemaFixed ==
  [][(last'.called /\ last'.isPtr /\ Types[last'.t].Kind = "struct") =>
       /\ last'.opts = globalOptions
       /\ IF KeyOf(last') \in DOMAIN cache
          THEN last'.schema = cache[KeyOf(last')] /\ cache' = cache
          ELSE last'.compiled =>
                 \A i \in 1..Len(last'.schema) :
                   ReadsChannels(last', last'.schema[i], globalOptions)
       /\ ~last'.panicked => ExecutionOptions']_vars

\* The Form was compiled under the packaged channel names; all six have been
\* renamed since, and a call under StopOnFirstError and ExposeValidatorNames still
\* ran email on Mail and reported it under the label E-mail and with the rule's
\* name.
C30_Witness ==
  /\ Returned /\ last.isPtr /\ last.t = "Form" /\ ~last.compiled
  /\ globalOptions = last.opts
  /\ globalOptions.ValidatorTagName = "check" /\ globalOptions.FilterTagName = "clean"
  /\ globalOptions.TriggerTagName = "when" /\ globalOptions.FlagTagName = "marks"
  /\ globalOptions.MessageTagName = "text" /\ globalOptions.LabelTagName = "title"
  /\ globalOptions.StopOnFirstError /\ globalOptions.ExposeValidatorNames
  /\ last.res.FieldErrors =
       <<[Field |-> <<"E-mail">>,
          Message |-> <<"E-mail", ": field validation failed", " using function ", "email">>]>>

\* A Form first validated after the renaming was compiled from the other names.
C30_CompiledRenamed ==
  /\ last.called /\ last.isPtr /\ last.t = "Form" /\ last.compiled
  /\ \E i \in 1..Len(last.schema) :
       /\ last.schema[i].fieldLabel = <<"Address">>
       /\ last.schema[i].validators[1].fn = "IsUuid4"
       /\ last.schema[i].hasMessagTemplate

====
